---- MODULE Spec2Model ----
(***************************************************************************)
(* Model of ska_sdp_func_python.calibration:                               *)
(*   chain_calibration.py  - apply_calibration_chain, calibrate_chain,     *)
(*                           solve_calibrate_chain                         *)
(*   beamformer_utils.py   - multiply_gaintable_jones                      *)
(*                                                                         *)
(* Every call of a function is one action.  The external collaborators     *)
(* (create_gaintable_from_visibility, solve_gaintable, apply_gaintable)    *)
(* are uninterpreted: a visibility is the list of corrections applied to   *)
(* it, a gain table is its jones_type, its timeslice and the number of     *)
(* solves it went through, and every call of a collaborator is appended,   *)
(* with its arguments, to the list `calls`.                                *)
(***************************************************************************)
EXTENDS Integers, Sequences, FiniteSets, TLC

VARIABLES
    op,          \* the function that was called, "idle" before any call
    args,        \* the arguments of that call
    ret,         \* what the call returned, or the exception it raised
    gaintables,  \* the caller's gain-table mapping (a dict, passed by reference)
    calls,       \* the collaborator calls made so far, in order
    heap         \* the gain tables and the target frequency sequences that the
                 \* caller of the gain-table functions holds

vars == <<op, args, ret, gaintables, calls, heap>>

----------------------------------------------------------------------------
(* Bounds *)

\* longest calibration context string
MaxCtx == 2
\* largest first_selfcal, and largest iteration
MaxFirst == 1

----------------------------------------------------------------------------
(* Python values *)

\* a dict without entries
EmptyDict == [c \in {} |-> 0]

\* an optional dict: Python's None, or a dict d
None == [none |-> TRUE, d |-> EmptyDict]
Dict(d) == [none |-> FALSE, d |-> d]

\* no exception
NoExc == [type |-> "", arg |-> ""]
KeyError(k) == [type |-> "KeyError", arg |-> k]
ValueError(msg) == [type |-> "ValueError", arg |-> msg]

\* the Jones types the model draws contexts from: T and G, which the default
\* controls hold (B is handled as G is), and P, which they lack (as they lack I)
Tags == {"T", "G", "P"}

\* the calibration context strings: sequences of Jones-type letters
Contexts == UNION {[1..n -> Tags] : n \in 0..MaxCtx}

\* the default solver tolerance, tol=1e-6
Tol == "1e-6"

----------------------------------------------------------------------------
(* Calibration controls *)

\* the entry the module docstring gives for P, which the defaults lack
PControl == [shape |-> "matrix", timeslice |-> "1e4", phase_only |-> FALSE,
             first_selfcal |-> 0]

create_calibration_controls_withP ==
    [c \in {"T", "G", "B", "P"} |->
        CASE c = "T" -> [shape |-> "scalar", timeslice |-> "auto",
                         phase_only |-> TRUE, first_selfcal |-> 0]
          [] c = "G" -> [shape |-> "vector", timeslice |-> "60.0",
                         phase_only |-> FALSE, first_selfcal |-> 0]
          [] c = "B" -> [shape |-> "vector", timeslice |-> "1e5",
                         phase_only |-> FALSE, first_selfcal |-> 0]
          [] c = "P" -> PControl]

create_calibration_controls ==
    [c \in {"T", "G", "B"} |->
        CASE c = "T" -> [shape |-> "scalar", timeslice |-> "auto",
                         phase_only |-> TRUE, first_selfcal |-> 0]
          [] c = "G" -> [shape |-> "vector", timeslice |-> "60.0",
                         phase_only |-> FALSE, first_selfcal |-> 0]
          [] c = "B" -> [shape |-> "vector", timeslice |-> "1e5",
                         phase_only |-> FALSE, first_selfcal |-> 0]]

\* a controls dict a caller builds: entries for the tags of D, each the
\* documented record with first_selfcal set to f[c]
CallerControls(D, f) ==
    [c \in D |->
        [(IF c = "P" THEN PControl ELSE create_calibration_controls[c])
            EXCEPT !.first_selfcal = f[c]]]

ControlsInputs ==
    {None} \cup
    {Dict(CallerControls(D, f)) : <<D, f>> \in
        UNION {{<<D, f>> : f \in [D -> 0..MaxFirst]} : D \in SUBSET Tags}}

\* `if controls is None: controls = create_calibration_controls()`
Controls(a) ==
    IF a.controls.none THEN create_calibration_controls ELSE a.controls.d

\* the first tag of the context without a controls entry: the key of the
\* KeyError that `controls[c]` raises
MissingControl(a) ==
    LET ctx == a.calibration_context
        i == CHOOSE i \in 1..Len(ctx) :
                /\ ctx[i] \notin DOMAIN Controls(a)
                /\ \A j \in 1..(i - 1) : ctx[j] \in DOMAIN Controls(a)
    IN ctx[i]

HasMissingControl(a) ==
    \E i \in 1..Len(a.calibration_context) :
        a.calibration_context[i] \notin DOMAIN Controls(a)

----------------------------------------------------------------------------
(* External collaborators *)

\* observed visibilities: whether some flagged weight is nonzero, and the
\* corrections applied so far
VisInputs == {[flagged_weight_nonzero |-> w, applied |-> <<>>] : w \in BOOLEAN}

\* model visibilities: None, identically zero, or with a nonzero sample
ModelInputs == {"None", "zero", "nonzero"}

\* a stored gain table of Jones type c
StoredTable(c) == [jones_type |-> c, timeslice |-> "stored", nsolve |-> 0]

\* the caller's gain-table mapping before the call
GaintablesInputs ==
    {None} \cup {Dict([c \in D |-> StoredTable(c)]) : D \in SUBSET Tags}

create_gaintable_from_visibility(vis, timeslice, jones_type) ==
    [jones_type |-> jones_type, timeslice |-> timeslice, nsolve |-> 0]

solve_gaintable(vis, modelvis, gain_table, phase_only, crosspol, timeslice, tol) ==
    [gain_table EXCEPT !.nsolve = @ + 1]

apply_gaintable(vis, gt, inverse) ==
    [vis EXCEPT !.applied = Append(@, [gt |-> gt, inverse |-> inverse])]

\* the records of `calls`: the collaborator, the tag it is called for, its
\* arguments and, for a constructor or solver call, the table it returned
CreateCall(vis, timeslice, jones_type) ==
    [fn |-> "create_gaintable_from_visibility", tag |-> jones_type, vis |-> vis,
     timeslice |-> timeslice,
     out |-> create_gaintable_from_visibility(vis, timeslice, jones_type)]

SolveCall(c, vis, modelvis, gain_table, ctl, tol) ==
    [fn |-> "solve_gaintable", tag |-> c, vis |-> vis, modelvis |-> modelvis,
     gain_table |-> gain_table, phase_only |-> ctl.phase_only,
     crosspol |-> (ctl.shape = "matrix"), timeslice |-> ctl.timeslice,
     tol |-> tol,
     out |-> solve_gaintable(vis, modelvis, gain_table, ctl.phase_only,
                             ctl.shape = "matrix", ctl.timeslice, tol)]

ApplyCall(c, vis, gt, inverse) ==
    [fn |-> "apply_gaintable", tag |-> c, vis |-> vis, gt |-> gt,
     inverse |-> inverse]

----------------------------------------------------------------------------
(* apply_calibration_chain *)

\* line 156: `iteration >= controls[c]["first_selfcal"]`
apply_active(a, c) == a.iteration >= Controls(a)[c].first_selfcal

\* lines 154-159: some tag is active and has a stored table
apply_changes(a) ==
    \E i \in 1..Len(a.calibration_context) :
        /\ apply_active(a, a.calibration_context[i])
        /\ a.calibration_context[i] \in DOMAIN a.gaintables.d

\* lines 163-165: the loop from the i-th tag on; st = [avis, calls, exc]
RECURSIVE apply_loop(_, _, _)
apply_loop(a, i, st) ==
    IF i > Len(a.calibration_context) THEN st
    ELSE LET c == a.calibration_context[i] IN
         IF apply_active(a, c)
         THEN IF c \notin DOMAIN a.gaintables.d
              THEN [st EXCEPT !.exc = KeyError(c)]
              ELSE apply_loop(a, i + 1,
                     [st EXCEPT
                        !.avis = apply_gaintable(a.vis, a.gaintables.d[c], FALSE),
                        !.calls = Append(@, ApplyCall(c, a.vis,
                                                a.gaintables.d[c], FALSE))])
         ELSE apply_loop(a, i + 1, st)

\* the whole call: [exc, vis, calls]
apply_calibration_chain(a) ==
    IF HasMissingControl(a)
    THEN [exc |-> KeyError(MissingControl(a)), vis |-> a.vis, calls |-> <<>>]
    ELSE IF apply_changes(a)
    THEN LET st == apply_loop(a, 1, [avis |-> a.vis, calls |-> <<>>, exc |-> NoExc])
         IN [exc |-> st.exc, vis |-> st.avis, calls |-> st.calls]
    ELSE [exc |-> NoExc, vis |-> a.vis, calls |-> <<>>]

----------------------------------------------------------------------------
(* calibrate_chain *)

\* a dict with d[c] = v
DictSet(d, c, v) == [x \in DOMAIN d \cup {c} |-> IF x = c THEN v ELSE d[x]]

\* `if gaintables is None: gaintables = {}`
GaintablesOrEmpty(a) == IF a.gaintables.none THEN EmptyDict ELSE a.gaintables.d

\* the caller's mapping after a call that left the local dict as d: the dict
\* the caller passed is the one the function wrote to; None stays None
CallerAfter(a, d) == IF a.gaintables.none THEN None ELSE Dict(d)

\* lines 205 and 217, with first_selfcal not looked at
calibrate_active_from_start(a, c) == a.iteration >= 0

\* lines 205 and 217: `iteration >= controls[c]["first_selfcal"]`
calibrate_active(a, c) == a.iteration >= Controls(a)[c].first_selfcal

\* lines 203-206, with the loop always entered
calibrate_changes_always(a) == TRUE

\* lines 203-206
calibrate_changes(a) ==
    \E i \in 1..Len(a.calibration_context) :
        calibrate_active(a, a.calibration_context[i])

\* lines 223-225, with the solver given vis, not avis
calibrate_solve_vis_uncorrected(a, st) == a.vis

\* lines 223-225: the visibilities handed to solve_gaintable
calibrate_solve_vis(a, st) == st.avis

\* lines 242-246: the visibility after the solve of gain table gt
calibrate_apply(st, gt) == apply_gaintable(st.avis, gt, TRUE)

\* lines 217-253, with a table constructed for every active tag
calibrate_step_new_table(a, c, st) ==
    IF calibrate_active(a, c)
    THEN LET ctl == Controls(a)[c]
             gt0 == create_gaintable_from_visibility(st.avis, ctl.timeslice, c)
             calls0 == Append(st.calls, CreateCall(st.avis, ctl.timeslice, c))
             svis == calibrate_solve_vis(a, st)
             gt1 == solve_gaintable(svis, a.model_vis, gt0, ctl.phase_only,
                                    ctl.shape = "matrix", ctl.timeslice, a.tol)
             calls1 == Append(calls0, SolveCall(c, svis, a.model_vis, gt0, ctl, a.tol))
         IN [avis |-> calibrate_apply(st, gt1),
             gaintables |-> DictSet(st.gaintables, c, gt1),
             calls |-> Append(calls1, ApplyCall(c, st.avis, gt1, TRUE))]
    ELSE st

\* lines 217-253: the loop body for tag c; st = [avis, gaintables, calls]
calibrate_step(a, c, st) ==
    IF calibrate_active(a, c)
    THEN LET ctl == Controls(a)[c]
             new == c \notin DOMAIN st.gaintables
             gt0 == IF new
                    THEN create_gaintable_from_visibility(st.avis, ctl.timeslice, c)
                    ELSE st.gaintables[c]
             calls0 == IF new
                       THEN Append(st.calls, CreateCall(st.avis, ctl.timeslice, c))
                       ELSE st.calls
             svis == calibrate_solve_vis(a, st)
             gt1 == solve_gaintable(svis, a.model_vis, gt0, ctl.phase_only,
                                    ctl.shape = "matrix", ctl.timeslice, a.tol)
             calls1 == Append(calls0, SolveCall(c, svis, a.model_vis, gt0, ctl, a.tol))
         IN [avis |-> calibrate_apply(st, gt1),
             gaintables |-> DictSet(st.gaintables, c, gt1),
             calls |-> Append(calls1, ApplyCall(c, st.avis, gt1, TRUE))]
    ELSE st

\* lines 216-253: the loop from the i-th tag on
RECURSIVE calibrate_loop(_, _, _)
calibrate_loop(a, i, st) ==
    IF i > Len(a.calibration_context) THEN st
    ELSE calibrate_loop(a, i + 1, calibrate_step(a, a.calibration_context[i], st))

\* the whole call: [exc, vis, gaintables, caller, calls]
calibrate_chain(a) ==
    IF HasMissingControl(a)
    THEN [exc |-> KeyError(MissingControl(a)), vis |-> a.vis,
          gaintables |-> a.gaintables, caller |-> a.gaintables, calls |-> <<>>]
    ELSE IF calibrate_changes(a)
    THEN LET st == calibrate_loop(a, 1, [avis |-> a.vis,
                                         gaintables |-> GaintablesOrEmpty(a),
                                         calls |-> <<>>])
         IN [exc |-> NoExc, vis |-> st.avis, gaintables |-> Dict(st.gaintables),
             caller |-> CallerAfter(a, st.gaintables), calls |-> st.calls]
    ELSE [exc |-> NoExc, vis |-> a.vis, gaintables |-> a.gaintables,
          caller |-> a.gaintables, calls |-> <<>>]

----------------------------------------------------------------------------
(* solve_calibrate_chain *)

\* line 303: `iteration >= controls[c]["first_selfcal"]`
solve_active(a, c) == a.iteration >= Controls(a)[c].first_selfcal

\* lines 304-308, with the model not looked at
solve_data_valid_weights_only(a) == a.vis.flagged_weight_nonzero

\* lines 304-308: some flagged weight is nonzero, and the model is None or
\* has a nonzero sample
solve_data_valid(a) ==
    /\ a.vis.flagged_weight_nonzero
    /\ (a.model_vis = "None" \/ a.model_vis = "nonzero")

\* lines 297-344, with the solved table applied to avis as calibrate_chain does
solve_step_applying(a, c, st) ==
    IF c \notin DOMAIN Controls(a)
    THEN [st EXCEPT !.exc = KeyError(c)]
    ELSE LET ctl == Controls(a)[c]
             new == c \notin DOMAIN st.gaintables
             gt0 == IF new
                    THEN create_gaintable_from_visibility(st.avis, ctl.timeslice, c)
                    ELSE st.gaintables[c]
             calls0 == IF new
                       THEN Append(st.calls, CreateCall(st.avis, ctl.timeslice, c))
                       ELSE st.calls
             gt1 == solve_gaintable(st.avis, a.model_vis, gt0, ctl.phase_only,
                                    ctl.shape = "matrix", ctl.timeslice, a.tol)
         IN IF solve_active(a, c) /\ solve_data_valid(a)
            THEN [st EXCEPT
                    !.avis = apply_gaintable(st.avis, gt1, TRUE),
                    !.gaintables = DictSet(st.gaintables, c, gt1),
                    !.calls = Append(Append(calls0,
                        SolveCall(c, st.avis, a.model_vis, gt0, ctl, a.tol)),
                        ApplyCall(c, st.avis, gt1, TRUE))]
            ELSE [st EXCEPT !.gaintables = DictSet(st.gaintables, c, gt0),
                            !.calls = calls0]

\* lines 297-344, with the table constructed only for an active tag, as in
\* calibrate_chain
solve_step_created_if_active(a, c, st) ==
    IF c \notin DOMAIN Controls(a)
    THEN [st EXCEPT !.exc = KeyError(c)]
    ELSE LET ctl == Controls(a)[c]
             new == c \notin DOMAIN st.gaintables
             gt0 == IF new
                    THEN create_gaintable_from_visibility(st.avis, ctl.timeslice, c)
                    ELSE st.gaintables[c]
             calls0 == IF new
                       THEN Append(st.calls, CreateCall(st.avis, ctl.timeslice, c))
                       ELSE st.calls
         IN IF solve_active(a, c) /\ solve_data_valid(a)
            THEN [st EXCEPT
                    !.gaintables = DictSet(st.gaintables, c,
                        solve_gaintable(st.avis, a.model_vis, gt0, ctl.phase_only,
                                        ctl.shape = "matrix", ctl.timeslice, a.tol)),
                    !.calls = Append(calls0,
                        SolveCall(c, st.avis, a.model_vis, gt0, ctl, a.tol))]
            ELSE IF solve_active(a, c)
            THEN [st EXCEPT !.gaintables = DictSet(st.gaintables, c, gt0),
                            !.calls = calls0]
            ELSE st

\* lines 297-344: the loop body for tag c; st = [avis, gaintables, calls, exc]
solve_step(a, c, st) ==
    IF c \notin DOMAIN Controls(a)
    THEN \* controls[c] raises, at line 299 or at line 303
         [st EXCEPT !.exc = KeyError(c)]
    ELSE LET ctl == Controls(a)[c]
             new == c \notin DOMAIN st.gaintables
             gt0 == IF new
                    THEN create_gaintable_from_visibility(st.avis, ctl.timeslice, c)
                    ELSE st.gaintables[c]
             calls0 == IF new
                       THEN Append(st.calls, CreateCall(st.avis, ctl.timeslice, c))
                       ELSE st.calls
         IN IF solve_active(a, c) /\ solve_data_valid(a)
            THEN [st EXCEPT
                    !.gaintables = DictSet(st.gaintables, c,
                        solve_gaintable(st.avis, a.model_vis, gt0, ctl.phase_only,
                                        ctl.shape = "matrix", ctl.timeslice, a.tol)),
                    !.calls = Append(calls0,
                        SolveCall(c, st.avis, a.model_vis, gt0, ctl, a.tol))]
            ELSE [st EXCEPT !.gaintables = DictSet(st.gaintables, c, gt0),
                            !.calls = calls0]

\* lines 296-344: the loop from the i-th tag on, left when controls[c] raises
RECURSIVE solve_loop(_, _, _)
solve_loop(a, i, st) ==
    IF i > Len(a.calibration_context) \/ st.exc # NoExc THEN st
    ELSE solve_loop(a, i + 1, solve_step(a, a.calibration_context[i], st))

\* the whole call: [exc, gaintables, caller, calls]; line 289 sets avis = vis
solve_calibrate_chain(a) ==
    LET st == solve_loop(a, 1, [avis |-> a.vis,
                                gaintables |-> GaintablesOrEmpty(a),
                                calls |-> <<>>, exc |-> NoExc])
    IN [exc |-> st.exc, gaintables |-> Dict(st.gaintables),
        caller |-> CallerAfter(a, st.gaintables), calls |-> st.calls]

----------------------------------------------------------------------------
(* Complex numbers and numpy arrays *)

\* a complex number is <<re, im, n, d>>: the number (re + i im) with integer
\* parts turned by the angle (n / d) * pi / 4, where 0 <= n / d < 2 is in
\* lowest terms; every number of this kind has one such form
RECURSIVE GCD(_, _)
GCD(m, n) == IF n = 0 THEN m ELSE GCD(n, m % n)

\* the form of (re + i im) turned by (n / d) * pi / 4, for any n and d > 0:
\* whole quarter turns go into the integer parts
Complex(re, im, n, d) ==
    LET m == n % (8 * d)
        q == m \div (2 * d)
        r == m % (2 * d)
        g == GCD(d, r)
    IN IF re = 0 /\ im = 0 THEN <<0, 0, 0, 1>>
       ELSE <<CASE q = 0 -> re [] q = 1 -> 0 - im [] q = 2 -> 0 - re [] q = 3 -> im,
              CASE q = 0 -> im [] q = 1 -> re [] q = 2 -> 0 - im [] q = 3 -> 0 - re,
              r \div g, d \div g>>

\* complex(re, im)
C(re, im) == Complex(re, im, 0, 1)

\* x * y: the integer parts multiply and the angles add
CMul(x, y) ==
    Complex(x[1] * y[1] - x[2] * y[2], x[1] * y[2] + x[2] * y[1],
            x[3] * y[4] + y[3] * x[4], x[4] * y[4])

\* x + y, for two numbers turned by the same angle or with one of them zero
CAdd(x, y) ==
    CASE x = C(0, 0) -> y
      [] y = C(0, 0) -> x
      [] x[3] = y[3] /\ x[4] = y[4] -> Complex(x[1] + y[1], x[2] + y[2], x[3], x[4])

\* the sum of the terms of a sequence
RECURSIVE CSum(_)
CSum(terms) ==
    IF terms = <<>> THEN C(0, 0)
    ELSE CAdd(CSum(SubSeq(terms, 1, Len(terms) - 1)), terms[Len(terms)])

\* the indices of an array of the given shape; Python's index k is k + 1 here
Indices5(shape) ==
    (1..shape[1]) \X (1..shape[2]) \X (1..shape[3]) \X (1..shape[4]) \X (1..shape[5])
Indices4(shape) ==
    (1..shape[1]) \X (1..shape[2]) \X (1..shape[3]) \X (1..shape[4])

\* the position of an index in the flattened array
Flat5(shape, x) ==
    ((((x[1] - 1) * shape[2] + (x[2] - 1)) * shape[3] + (x[3] - 1)) * shape[4]
        + (x[4] - 1)) * shape[5] + (x[5] - 1)
Flat4(shape, x) ==
    (((x[1] - 1) * shape[2] + (x[2] - 1)) * shape[3] + (x[3] - 1)) * shape[4]
        + (x[4] - 1)

\* the number of elements of an array of five axes
Size(shape) == shape[1] * shape[2] * shape[3] * shape[4] * shape[5]

\* an array: its shape and its elements, one per index
ndarray(shape, data) == [shape |-> shape, data |-> data]

----------------------------------------------------------------------------
(* Gain tables *)

\* longest time axis and longest antenna axis of a gain table
MaxAxis == 2
\* longest channel axis of a gain table
MaxChan == 3

\* the Jones types of the operands
JonesTypes == {"B", "G", "K"}

\* gain.shape = (time, antenna, channel, receptor1, receptor2); the receptor1
\* and receptor2 coordinates have the lengths of the gain's receptor axes
GainShapes == (1..MaxAxis) \X (1..MaxAxis) \X (1..MaxChan) \X {1, 2} \X {1, 2}

\* the shape of the residual of a table whose gain has the given shape
ResidualShape(shape) == <<shape[1], shape[3], shape[4], shape[5]>>

\* a gain table: gain of the given shape with elements gain[n], n the flat
\* position, one frequency per channel from frequency0 on, and weights and
\* residuals that tell tables of different seeds apart
GainTable(jones_type, shape, frequency0, seed, gain) ==
    [jones_type |-> jones_type,
     gain |-> ndarray(shape, [x \in Indices5(shape) |-> gain[Flat5(shape, x)]]),
     weight |-> ndarray(shape, [x \in Indices5(shape) |->
                                    seed + (Flat5(shape, x) % 2)]),
     residual |-> ndarray(ResidualShape(shape),
                          [x \in Indices4(ResidualShape(shape)) |->
                              seed + (Flat4(ResidualShape(shape), x) % 3)]),
     frequency |-> [k \in 1..shape[3] |-> frequency0 + (k - 1)]]

\* the gain tables the multiplier is given: the elements of a table differ
\* from each other, and the tables of the two operands differ by their seed
JonesTables(seed) ==
    {GainTable(jones_type, shape, 100 * seed, seed,
               [n \in 0..(Size(shape) - 1) |-> C(n + seed, ((n + seed) % 3) - 1)]) :
        jones_type \in JonesTypes, shape \in GainShapes}

\* a gain table of the given shape, which has square Jones matrices, whose
\* every Jones matrix is the identity
IdentityTable(jones_type, shape, seed) ==
    GainTable(jones_type, shape, 100 * seed, seed,
              [n \in 0..(Size(shape) - 1) |->
                  IF ((n % (shape[5] * shape[5])) % (shape[5] + 1)) = 0
                  THEN C(1, 0) ELSE C(0, 0)])

\* GainTable.constructor(gain, weight, residual, frequency, jones_type, ...)
GainTable_constructor(gain, weight, residual, frequency, jones_type) ==
    [jones_type |-> jones_type, gain |-> gain, weight |-> weight,
     residual |-> residual, frequency |-> frequency]

----------------------------------------------------------------------------
(* multiply_gaintable_jones *)

\* line 206, with the second operand forgotten
has_delay_left_only(gain_table1, gain_table2) == gain_table1.jones_type = "K"

\* line 206
has_delay(gain_table1, gain_table2) ==
    gain_table1.jones_type = "K" \/ gain_table2.jones_type = "K"

\* lines 169-173, without the exception for a single channel
channels_differ_strict(gain1, gain2) == gain1[3] # gain2[3]

\* lines 169-173: the channel axes differ and neither has one channel
channels_differ(gain1, gain2) ==
    gain1[3] # gain2[3] /\ gain1[3] # 1 /\ gain2[3] # 1

\* lines 175-183, with the matrix product checked as the elementwise one is
\* for its first receptor axis
receptors_differ_first_axis(gain1, gain2, elementwise) ==
    IF elementwise
    THEN IF gain1[4] # gain2[4] THEN "pol error"
         ELSE IF gain1[5] # gain2[5] THEN "pol error" ELSE ""
    ELSE IF gain1[4] # gain2[4]
         THEN "Matrices not compatible for multiplication" ELSE ""

\* lines 175-183: the message of the error raised for the receptor axes, ""
\* when none is; receptor2.shape of the left table is (gain1.shape[4],) and
\* receptor1.shape of the right table is (gain2.shape[3],) in Python's indices
receptors_differ(gain1, gain2, elementwise) ==
    IF elementwise
    THEN IF gain1[4] # gain2[4] THEN "pol error"
         ELSE IF gain1[5] # gain2[5] THEN "pol error" ELSE ""
    ELSE IF gain1[5] # gain2[4]
         THEN "Matrices not compatible for multiplication" ELSE ""

\* lines 160-191: [exc, shape]
set_gaintable_product_shape(gain_table1, gain_table2, elementwise) ==
    LET gain1 == gain_table1.gain.shape
        gain2 == gain_table2.gain.shape
        Raise(msg) == [exc |-> ValueError(msg), shape |-> <<>>]
    IN IF gain1[1] # gain2[1] THEN Raise("time error")
       ELSE IF gain1[2] # gain2[2] THEN Raise("antenna error")
       ELSE IF channels_differ(gain1, gain2) THEN Raise("frequency error")
       ELSE IF receptors_differ(gain1, gain2, elementwise) # ""
            THEN Raise(receptors_differ(gain1, gain2, elementwise))
       ELSE [exc |-> NoExc,
             shape |-> <<gain1[1], gain1[2],
                         IF gain1[3] >= gain2[3] THEN gain1[3] ELSE gain2[3],
                         gain1[4], gain2[5]>>]

\* lines 214-219, with `chan *= 0` for every operand
chan_map_first(gain_table, chan) == ((chan - 1) * 0) + 1

\* lines 214-219: the channel of the operand that goes into output channel
\* chan: numpy.arange(shape[2]), times 0 when the operand has one channel
chan_map(gain_table, chan) ==
    IF gain_table.gain.shape[3] = 1 THEN ((chan - 1) * 0) + 1 ELSE chan

\* numpy's broadcasting: an axis of length 1 is read at its only index
Bcast(len, i) == IF len = 1 THEN 1 ELSE i

\* lines 224-233: the message of the error numpy raises for the product of a
\* Jones matrix of shape (gain1[3], gain1[4]) and one of shape
\* (gain2[3], gain2[4]) (Python's indices) assigned to gain[time, ant, chan],
\* "" when it raises none
numpy_product_error(gain1, gain2, elementwise) ==
    LET Max(m, n) == IF m >= n THEN m ELSE n
        Fits(m, n) == m = n \/ m = 1 \/ n = 1
    IN IF elementwise
       THEN IF ~(Fits(gain1[4], gain2[4]) /\ Fits(gain1[5], gain2[5]))
            THEN "operands could not be broadcast together"
            ELSE IF \/ Max(gain1[4], gain2[4]) \notin {1, gain1[4]}
                    \/ Max(gain1[5], gain2[5]) \notin {1, gain2[5]}
                 THEN "could not broadcast input array"
                 ELSE ""
       ELSE IF gain1[5] # gain2[4] THEN "matmul: mismatch in its core dimension"
            ELSE ""

\* lines 224-233, with `*` in both modes
jones_product_elementwise(g1, g2, x1, x2, i, j, elementwise) ==
    CMul(g1.data[<<x1[1], x1[2], x1[3], Bcast(g1.shape[4], i), Bcast(g1.shape[5], j)>>],
         g2.data[<<x2[1], x2[2], x2[3], Bcast(g2.shape[4], i), Bcast(g2.shape[5], j)>>])

\* lines 224-233: element (i, j) of the product of the Jones matrix of g1 at
\* x1 = (time, ant, chan) and the Jones matrix of g2 at x2
jones_product(g1, g2, x1, x2, i, j, elementwise) ==
    IF elementwise
    THEN CMul(g1.data[<<x1[1], x1[2], x1[3], Bcast(g1.shape[4], i), Bcast(g1.shape[5], j)>>],
              g2.data[<<x2[1], x2[2], x2[3], Bcast(g2.shape[4], i), Bcast(g2.shape[5], j)>>])
    ELSE CSum([k \in 1..g1.shape[5] |->
                CMul(g1.data[<<x1[1], x1[2], x1[3], i, k>>],
                     g2.data[<<x2[1], x2[2], x2[3], k, j>>])])

\* lines 236-243, with the left table's metadata always taken
metadata_table_left(gain_table1, gain_table2) == gain_table1

\* lines 236-243: the table the frequency, weight and residual are taken from
metadata_table(gain_table1, gain_table2) ==
    IF gain_table1.gain.shape[3] > 1 THEN gain_table1 ELSE gain_table2

\* lines 246-249, with the left table's jones_type always taken
product_jones_type_left(gain_table1, gain_table2) == gain_table1.jones_type

\* lines 246-249
product_jones_type(gain_table1, gain_table2) ==
    IF gain_table1.jones_type = gain_table2.jones_type
    THEN gain_table1.jones_type ELSE "B"

\* lines 206-262: [exc, table]
multiply_gaintable_jones(gain_table1, gain_table2, elementwise) ==
    IF has_delay(gain_table1, gain_table2)
    THEN [exc |-> ValueError("Cannot multiply delays. Use expand_delay_phase")]
    ELSE LET s == set_gaintable_product_shape(gain_table1, gain_table2, elementwise)
             gain == ndarray(s.shape, [x \in Indices5(s.shape) |->
                        jones_product(gain_table1.gain, gain_table2.gain,
                            <<x[1], x[2], chan_map(gain_table1, x[3])>>,
                            <<x[1], x[2], chan_map(gain_table2, x[3])>>,
                            x[4], x[5], elementwise)])
             meta == metadata_table(gain_table1, gain_table2)
             numpy_error == numpy_product_error(gain_table1.gain.shape,
                                                gain_table2.gain.shape, elementwise)
         IN IF s.exc # NoExc THEN [exc |-> s.exc]
            ELSE IF numpy_error # "" THEN [exc |-> ValueError(numpy_error)]
            ELSE [exc |-> NoExc,
                  table |-> GainTable_constructor(gain, meta.weight, meta.residual,
                                meta.frequency,
                                product_jones_type(gain_table1, gain_table2))]

----------------------------------------------------------------------------
(* expand_delay_phase *)

\* highest frequency of a delay table and of a target channel
MaxFreq == 3
\* longest sequence of target frequencies
MaxTarget == 2

\* gains along the axes and the diagonals, of several magnitudes: the numbers
\* whose angle is a multiple of pi / 4
Octants ==
    <<C(1, 0), C(0, 2), C(-1, 1), C(-3, 0), C(2, -2), C(0, -1), C(1, 1),
      C(-1, -1), C(1, -1)>>

\* the gain tables expand_delay_phase is given: one or two channels, the
\* first at frequency0
DelayTables ==
    {GainTable(jones_type, shape, frequency0, seed,
               [n \in 0..(Size(shape) - 1) |->
                   Octants[((n + seed) % Len(Octants)) + 1]]) :
        jones_type \in JonesTypes,
        shape \in (1..MaxAxis) \X {1, 2} \X {1, 2} \X {1, 2} \X {1, 2},
        frequency0 \in 1..MaxFreq, seed \in {0, 5}}

\* the sequences of target frequencies
RECURSIVE SeqsUpTo(_, _)
SeqsUpTo(S, n) ==
    IF n = 0 THEN {<<>>}
    ELSE SeqsUpTo(S, n - 1) \cup {Append(q, e) : q \in {r \in SeqsUpTo(S, n - 1) : Len(r) = n - 1}, e \in S}
TargetFrequencies == SeqsUpTo(1..MaxFreq, MaxTarget)

\* numpy.angle(z) as the fraction <<n, d>> of pi / 4, in (-pi, pi], for z
\* whose integer parts lie on an axis or a diagonal; numpy.angle(0) is 0
numpy_angle(z) ==
    LET re == z[1]
        im == z[2]
        octant == CASE im = 0 /\ re >= 0 -> 0
                    [] re > 0 /\ im = re -> 1
                    [] re = 0 /\ im > 0 -> 2
                    [] re < 0 /\ im = 0 - re -> 3
                    [] re < 0 /\ im = 0 -> 4
                    [] re < 0 /\ im = re -> 0 - 3
                    [] re = 0 /\ im < 0 -> 0 - 2
                    [] re > 0 /\ im = 0 - re -> 0 - 1
        n == octant * z[4] + z[3]
    IN <<IF n > 4 * z[4] THEN n - 8 * z[4] ELSE n, z[4]>>

\* lines 115-116, without the test
wrong_frequency_count_ignored(gain_table) == FALSE

\* lines 115-116: gain_table.frequency.shape[0] != 1
wrong_frequency_count(gain_table) == Len(gain_table.frequency) # 1

\* lines 132-133, with reference_to_centre ignored
centred_frequency_never(freq, frequency0, reference_to_centre) == freq

\* lines 132-133: the value of freq after `freq -= frequency0`
centred_frequency(freq, frequency0, reference_to_centre) ==
    IF reference_to_centre THEN freq - frequency0 ELSE freq

\* line 126, with the antenna axis in the place of the channel axis
expanded_residual_per_antenna(shape) ==
    ndarray(<<shape[1], shape[2], shape[4], shape[5]>>,
            [x \in Indices4(<<shape[1], shape[2], shape[4], shape[5]>>) |-> 0])

\* line 126: numpy.zeros((shape[0], shape[2], shape[3], shape[4]))
expanded_residual(shape) ==
    ndarray(<<shape[1], shape[3], shape[4], shape[5]>>,
            [x \in Indices4(<<shape[1], shape[3], shape[4], shape[5]>>) |-> 0])

\* lines 111-149: [exc, table]; frequency0 > 0
expand_delay_phase(gain_table, frequency, reference_to_centre) ==
    IF gain_table.jones_type # "K"
    THEN [exc |-> ValueError("Wrong Jones type")]
    ELSE IF wrong_frequency_count(gain_table)
    THEN [exc |-> ValueError("Expect a single frequency")]
    ELSE LET frequency0 == gain_table.frequency[1]
             shape == [gain_table.gain.shape EXCEPT ![3] = Len(frequency)]
             weight == ndarray(shape, [x \in Indices5(shape) |-> 1])
             residual == expanded_residual(shape)
             phase0(x) == numpy_angle(gain_table.gain.data[x])
             \* numpy.exp(1j * freq / frequency0 * phase0[:, :, 0, :, :])
             gain == ndarray(shape, [x \in Indices5(shape) |->
                        LET freq == centred_frequency(frequency[x[3]], frequency0,
                                                      reference_to_centre)
                            phase == phase0(<<x[1], x[2], 1, x[4], x[5]>>)
                        IN Complex(1, 0, freq * phase[1], frequency0 * phase[2])])
         IN [exc |-> NoExc,
             table |-> GainTable_constructor(gain, weight, residual, frequency, "B")]

----------------------------------------------------------------------------
(* PolynomialInterpolator *)

IndexError(msg) == [type |-> "IndexError", arg |-> msg]

\* the elements of a set of numbers in ascending order
RECURSIVE Ascending(_)
Ascending(S) ==
    IF S = {} THEN <<>>
    ELSE LET m == CHOOSE x \in S : \A y \in S : x <= y
         IN <<m>> \o Ascending(S \ {m})

\* most channels of a source grid
MaxSource == 3
\* most target frequencies of an interp call
MaxOut == 2

\* self.edges: None, a Python list, or a numpy array
EdgesNone == [kind |-> "None", v |-> <<>>]
EdgesList(v) == [kind |-> "list", v |-> v]
EdgesArray(v) == [kind |-> "ndarray", v |-> v]

\* lines 343-345, __init__
PolynomialInterpolator == [edges |-> EdgesNone, polydeg |-> 3]

\* lines 347-353
set_edges(self, edges) == [self EXCEPT !.edges = edges]

\* lines 355-361
set_polydeg(self, polydeg) == [self EXCEPT !.polydeg = polydeg]

\* line 376, `self.edges is None or self.edges == []`: "True", "False" or
\* "ValueError".  A numpy array of two elements or more does not broadcast
\* against the empty list: numpy before 1.25 answers False with a warning,
\* numpy from 1.25 on raises (numpy_raises)
edges_is_empty(edges, numpy_raises) ==
    CASE edges.kind = "None" -> "True"
      [] edges.kind = "list" -> IF edges.v = <<>> THEN "True" ELSE "False"
      [] edges.kind = "ndarray" -> IF numpy_raises THEN "ValueError" ELSE "False"

\* lines 376-377
edges_default(edges, n, numpy_raises) ==
    IF edges_is_empty(edges, numpy_raises) = "True"
    THEN EdgesArray(<<0, n>>)
    ELSE edges

\* lines 381-382 with the zero put in front whatever the first edge is
edges_from_zero_always(edges) == EdgesArray(<<0>> \o edges.v)

\* lines 381-382
edges_from_zero(edges) ==
    IF edges.v[1] > 0 THEN EdgesArray(<<0>> \o edges.v) ELSE edges

\* lines 384-385
edges_to_end(edges, n) ==
    IF edges.v[Len(edges.v)] < n THEN EdgesArray(edges.v \o <<n>>) ELSE edges

\* lines 376-385: self.edges after the three statements, for n = len(f_in)
normalised_edges(edges, n, numpy_raises) ==
    edges_to_end(edges_from_zero(edges_default(edges, n, numpy_raises)), n)

\* the fraction n / d in lowest terms, d # 0
Abs(x) == IF x < 0 THEN 0 - x ELSE x
Rational(n, d) ==
    LET g == GCD(Abs(n), Abs(d))
    IN IF d < 0 THEN <<(0 - n) \div g, (0 - d) \div g>>
       ELSE <<n \div g, d \div g>>

RECURSIVE Pow(_, _)
Pow(x, k) == IF k = 0 THEN 1 ELSE x * Pow(x, k - 1)

\* the sum of x[i]^k * y[i] over the first n points
RECURSIVE Moment(_, _, _, _)
Moment(x, y, k, n) ==
    IF n = 0 THEN 0 ELSE Moment(x, y, k, n - 1) + Pow(x[n], k) * y[n]

\* the determinant of a square matrix, a sequence of rows, by expansion along
\* the first row
RECURSIVE Det(_)
RECURSIVE Laplace(_, _)
Minor(M, j) ==
    [r \in 1..(Len(M) - 1) |->
        [c \in 1..(Len(M) - 1) |-> M[r + 1][IF c < j THEN c ELSE c + 1]]]
Laplace(M, j) ==
    IF j = 0 THEN 0
    ELSE Laplace(M, j - 1)
         + (IF j % 2 = 1 THEN 1 ELSE 0 - 1) * M[1][j] * Det(Minor(M, j))
Det(M) == IF Len(M) = 1 THEN M[1][1] ELSE Laplace(M, Len(M))

\* polynomial.polyval(t, polynomial.polyfit(x, y, deg)) for Len(x) > deg
\* distinct points x and whole numbers y: the least-squares polynomial is the
\* solution of the normal equations, here by Cramer's rule
polyfit_polyval(x, y, deg, t) ==
    LET ones == [i \in 1..Len(x) |-> 1]
        normal == [j \in 1..(deg + 1) |->
                    [k \in 1..(deg + 1) |-> Moment(x, ones, j + k - 2, Len(x))]]
        rhs == [j \in 1..(deg + 1) |-> Moment(x, y, j - 1, Len(x))]
        replaced(k) == [j \in 1..(deg + 1) |->
                          [c \in 1..(deg + 1) |->
                              IF c = k THEN rhs[j] ELSE normal[j][c]]]
        coef == [k \in 1..(deg + 1) |-> Det(replaced(k))]
        powers == [k \in 1..(deg + 1) |-> Pow(t, k - 1)]
    IN Rational(Moment(powers, coef, 1, deg + 1), Det(normal))

\* lines 396-399 with the lower boundary of the window one spacing higher
ch_out_shifted(t, f_in, lo, hi) ==
    LET df_in == f_in[2] - f_in[1]
    IN /\ 2 * t >= 2 * f_in[lo + 1] + df_in
       /\ 2 * t < 2 * f_in[hi] + df_in

\* lines 396-399, the mask of ch_out: target t is in the window of the
\* sub-band of channels lo..hi-1 (counted from 0)
ch_out(t, f_in, lo, hi) ==
    LET df_in == f_in[2] - f_in[1]
    IN /\ 2 * t >= 2 * f_in[lo + 1] - df_in
       /\ 2 * t < 2 * f_in[hi] + df_in

\* lines 401-411 with the real part fitted for both parts
fitted_gain_real_only(x, y, deg, t) ==
    IF deg <= 2 /\ Len(x) > deg /\ \A i \in DOMAIN y : y[i][3] = 0
    THEN [re |-> polyfit_polyval(x, [i \in DOMAIN y |-> y[i][1]], deg, t),
          im |-> polyfit_polyval(x, [i \in DOMAIN y |-> y[i][1]], deg, t)]
    ELSE [polyfit |-> <<x, y, deg>>, polyval |-> t]

\* lines 401-411: the value written at target t by the fit of the points
\* (x, y). Fits of degree 3 or more, fits of fewer than deg + 1 points (rank
\* deficient) and fits of gains that are not Gaussian integers are left
\* uninterpreted
fitted_gain(x, y, deg, t) ==
    IF deg <= 2 /\ Len(x) > deg /\ \A i \in DOMAIN y : y[i][3] = 0
    THEN [re |-> polyfit_polyval(x, [i \in DOMAIN y |-> y[i][1]], deg, t),
          im |-> polyfit_polyval(x, [i \in DOMAIN y |-> y[i][2]], deg, t)]
    ELSE [polyfit |-> <<x, y, deg>>, polyval |-> t]

\* line 388, numpy.empty(n, "complex128"): every element is whatever the
\* memory held
numpy_empty(n, uninitialised) == [c \in 1..n |-> [uninitialised |-> uninitialised]]

\* lines 363-412, PolynomialInterpolator.interp on strictly ascending edges:
\* [exc, self, fits, written, gain_out]. self is the object after the call,
\* fits the sub-bands fitted, written[c] the sub-bands that wrote channel c of
\* the output, in the order of the loop
polynomial_interp(self, f_out, f_in, gain, uninitialised, numpy_raises) ==
    LET n == Len(f_in)
        edges == normalised_edges(self.edges, n, numpy_raises)
        after == [self EXCEPT !.edges = edges]
        nband == Len(edges.v) - 1
        lo(k) == edges.v[k]
        hi(k) == edges.v[k + 1]
        bands == [k \in 1..nband |-> k]
        writes(k, c) == ch_out(f_out[c], f_in, lo(k), hi(k))
        written == [c \in 1..Len(f_out) |->
                      LET writes_c(k) == writes(k, c)
                      IN SelectSeq(bands, writes_c)]
        fit(k, c) == fitted_gain(SubSeq(f_in, lo(k) + 1, hi(k)),
                                 SubSeq(gain, lo(k) + 1, hi(k)),
                                 self.polydeg, f_out[c])
    IN IF edges_is_empty(self.edges, numpy_raises) = "ValueError"
       THEN [exc |-> ValueError("operands could not be broadcast together"),
             self |-> self]
       ELSE IF n < 2
       THEN [exc |-> IndexError("index 1 is out of bounds"), self |-> after]
       ELSE IF \E k \in 1..nband : lo(k) >= n \/ hi(k) > n
       THEN [exc |-> IndexError("index is out of bounds"), self |-> after]
       ELSE [exc |-> NoExc,
             self |-> after,
             fits |-> [k \in 1..nband |-> <<lo(k), hi(k)>>],
             written |-> written,
             gain_out |-> [c \in 1..Len(f_out) |->
                             IF written[c] = <<>>
                             THEN numpy_empty(Len(f_out), uninitialised)[c]
                             ELSE fit(written[c][Len(written[c])], c)]]

\* the source grids: n channels two units apart, the first at 2; with 50 Hz
\* as the unit these are 100 Hz, 200 Hz, 300 Hz
SourceGrid(n) == [i \in 1..n |-> 2 * i]
SourceGrids == {SourceGrid(n) : n \in 1..MaxSource}

\* the gains of a source grid: a + b i + c i^2 + (c i) j at channel i, for
\* (a, b, c) among a straight line (1, 2, 3 on three channels), a constant and
\* a parabola
SpectrumCoefficients == {<<0, 1, 0>>, <<2, 0, 0>>, <<1, 1, 1>>}
Spectrum(abc, n) ==
    [i \in 1..n |-> C(abc[1] + abc[2] * i + abc[3] * i * i, abc[3] * i)]

\* the target frequencies: on the boundaries of the windows of a grid and
\* outside the band; strictly ascending sequences of up to MaxOut of them
TargetGrid == {0, 1, 3, 5, 7, 9}
TargetAxes ==
    {Ascending(S) : S \in {T \in SUBSET TargetGrid : Cardinality(T) <= MaxOut}}

\* what the memory of an output array may hold before it is written
Uninitialised == {0, 1}

\* the edges a caller configures: strictly ascending channel numbers
EdgeLists ==
    {EdgesList(Ascending(S)) : S \in SUBSET (0..MaxSource)}

----------------------------------------------------------------------------
(* resample_bandpass *)

\* lines 414-469, interp of NumpyLinearInterpolator and of
\* ScipySplineInterpolator: the interpolated sequence is left uninterpreted,
\* one value per output frequency
interp(alg, f_out, f_in, gain) ==
    [chan \in 1..Len(f_out) |->
        [alg |-> alg, f_out |-> f_out[chan], f_in |-> f_in, gain |-> gain]]

\* lines 289-315 with the default edges and polydeg: [exc, gain_out]. The one
\* interpolator of lines 291-302 serves every slice of the loops of lines
\* 308-314: the first slice leaves its edges in it. scipy's CubicSpline takes
\* two points or more
resample_bandpass(f_out, gain_table, alg, uninitialised, numpy_raises) ==
    LET f_in == gain_table.frequency
        gain == gain_table.gain
        shape_out == [gain.shape EXCEPT ![3] = Len(f_out)]
        series(x) == [chan \in 1..gain.shape[3] |->
                        gain.data[<<x[1], x[2], chan, x[4], x[5]>>]]
        first == <<1, 1, 1, 1, 1>>
        slices == shape_out[1] * shape_out[2] * shape_out[4] * shape_out[5]
        call1 == polynomial_interp(PolynomialInterpolator, f_out, f_in,
                                   series(first), uninitialised, numpy_raises)
        later(x) == polynomial_interp(call1.self, f_out, f_in, series(x),
                                      uninitialised, numpy_raises)
        call(x) == IF <<x[1], x[2], x[4], x[5]>> = <<1, 1, 1, 1>>
                   THEN call1 ELSE later(x)
    IN IF alg \notin {"polyfit", "interp", "cubicspl"}
       THEN [exc |-> ValueError("unknown resampler")]
       ELSE IF alg = "polyfit" /\ call1.exc # NoExc
       THEN [exc |-> call1.exc]
       ELSE IF alg = "polyfit" /\ slices > 1 /\ later(first).exc # NoExc
       THEN [exc |-> later(first).exc]
       ELSE IF alg = "cubicspl" /\ Len(f_in) < 2
       THEN [exc |-> ValueError("x must contain at least 2 elements")]
       ELSE [exc |-> NoExc,
             gain_out |-> ndarray(shape_out, [x \in Indices5(shape_out) |->
                              IF alg = "polyfit"
                              THEN call(x).gain_out[x[3]]
                              ELSE interp(alg, f_out, f_in, series(x))[x[3]]])]

----------------------------------------------------------------------------
(* What the gain-table functions store into their arguments *)

\* line 133 as an update of frequency[chan] in place
centre_in_place(frequency, chan, frequency0) ==
    [frequency EXCEPT ![chan] = @ - frequency0]

\* line 133, `freq -= frequency0`: the caller's sequence after the statement.
\* freq is the loop variable of `for chan, freq in enumerate(frequency)`, a
\* number, and the statement binds it to a new number
centre_loop_variable(frequency, chan, frequency0) == frequency

\* lines 131-136: the caller's sequence after the first n rounds of the loop
RECURSIVE frequency_after_loop(_, _, _, _)
frequency_after_loop(frequency, n, frequency0, reference_to_centre) ==
    IF n = 0 THEN frequency
    ELSE LET before == frequency_after_loop(frequency, n - 1, frequency0,
                                            reference_to_centre)
         IN IF reference_to_centre
            THEN centre_loop_variable(before, n, frequency0)
            ELSE before

\* lines 111-149: the caller's frequency sequence after expand_delay_phase
expand_delay_phase_frequency(gain_table, frequency, reference_to_centre) ==
    IF expand_delay_phase(gain_table, frequency, reference_to_centre).exc # NoExc
    THEN frequency
    ELSE frequency_after_loop(frequency, Len(frequency), gain_table.frequency[1],
                              reference_to_centre)

\* most tables the caller keeps of those the functions return
MaxKept == 1

\* the caller's objects before any call
EmptyHeap == [tables |-> <<>>, frequency |-> <<>>]

\* the gain tables the caller starts with: a delay table with gains along the
\* axes at frequency 1, and a G table
HeapDelayTables ==
    {GainTable("K", <<1, 1, 1, n, n>>, 1, 0,
               [k \in 0..(n * n - 1) |->
                   <<C(1, 0), C(0, 2), C(-3, 0), C(0, -1)>>[(k % 4) + 1]]) :
        n \in {1, 2}}
HeapJonesTables ==
    {GainTable("G", <<1, 1, nchan, n, n>>, 1, 1,
               [k \in 0..(nchan * n * n - 1) |-> C(k + 1, (k % 3) - 1)]) :
        nchan \in {1, 2}, n \in {1, 2}}
HeapFrequencies == {<<1, 2>>, <<3>>}

\* the caller keeps a returned table or drops it, while it has room for one
KeepOrDrop == IF Len(heap.tables) < 2 + MaxKept THEN BOOLEAN ELSE {FALSE}

\* the caller's objects after a call that left them as `after` and returned r
Keep(after, r, keep) ==
    IF keep /\ r.exc = NoExc
    THEN [after EXCEPT !.tables = Append(@, r.table)]
    ELSE after

----------------------------------------------------------------------------
(* set_beamformer_frequencies *)

\* most channels of the input frequency axis
MaxNfreq == 3
\* the input frequencies lie on a grid of MaxStep + 1 points
MaxStep == 9

\* Frequencies are counted in units of 100 MHz / 4096 = 24414.0625 Hz, in
\* which both channel spacings are whole numbers.
\* line 59, 781.25e3 Hz, and line 65, 300.0e6 / 4096 Hz
dfrequency_bf(array) == IF array = "LOW" THEN 32 ELSE 3

\* an optional string: Python's None, or the string s
NoString == [none |-> TRUE, s |-> ""]
String(s) == [none |-> FALSE, s |-> s]

\* the array selectors a caller passes: none, the two policies, and a
\* selector that is neither
ArrayInputs == {NoString, String("LOW"), String("MID"), String("low")}

\* configuration names, as sequences of characters: LOW-A, MID, XLOW, low
ConfigurationNames ==
    {<<"L", "O", "W", "-", "A">>, <<"M", "I", "D">>, <<"X", "L", "O", "W">>,
     <<"l", "o", "w">>}

\* the input frequencies: a quarter of the LOW spacing apart, from 100 MHz on
FrequencyGrid == {4096 + 8 * j : j \in 0..MaxStep}

\* the frequency axes of the input gain table: strictly increasing
FrequencyAxes ==
    {Ascending(S) : S \in {T \in SUBSET FrequencyGrid : Cardinality(T) <= MaxNfreq}}

\* numpy.amin and numpy.amax of a sequence that is not empty
numpy_amin(f) == CHOOSE x \in {f[i] : i \in DOMAIN f} : \A i \in DOMAIN f : x <= f[i]
numpy_amax(f) == CHOOSE x \in {f[i] : i \in DOMAIN f} : \A i \in DOMAIN f : x >= f[i]

\* numpy.round(n / d) for n >= 0 and d > 0: to the nearest whole number, a
\* half to the even one
numpy_round(n, d) ==
    LET q == n \div d
        r == n % d
    IN IF 2 * r < d THEN q
       ELSE IF 2 * r > d THEN q + 1
       ELSE IF q % 2 = 0 THEN q ELSE q + 1

\* numpy.arange(start, stop, step) for step > 0
RECURSIVE numpy_arange(_, _, _)
numpy_arange(start, stop, step) ==
    IF start >= stop THEN <<>>
    ELSE <<start>> \o numpy_arange(start + step, stop, step)

\* array_name.find(prefix) == 0
starts_with(array_name, prefix) ==
    /\ Len(array_name) >= Len(prefix)
    /\ SubSeq(array_name, 1, Len(prefix)) = prefix

\* lines 51-55, with the name looked at whatever the caller passes
selected_array_by_name(array, array_name) ==
    IF starts_with(array_name, <<"L", "O", "W">>) THEN String("LOW")
    ELSE IF starts_with(array_name, <<"M", "I", "D">>) THEN String("MID")
    ELSE array

\* lines 51-55: array after `if array is None:`
selected_array(array, array_name) ==
    IF array.none
    THEN IF starts_with(array_name, <<"L", "O", "W">>) THEN String("LOW")
         ELSE IF starts_with(array_name, <<"M", "I", "D">>) THEN String("MID")
         ELSE array
    ELSE array

\* lines 57-66, with the LOW start rounded down
starting_freq_bf_floor(array, frequency_gt) ==
    IF array = "LOW"
    THEN dfrequency_bf(array) * (numpy_amin(frequency_gt) \div dfrequency_bf(array))
    ELSE numpy_amin(frequency_gt)

\* lines 57-66: starting_freq_bf for array LOW or MID
starting_freq_bf(array, frequency_gt) ==
    IF array = "LOW"
    THEN dfrequency_bf(array) * numpy_round(numpy_amin(frequency_gt),
                                            dfrequency_bf(array))
    ELSE numpy_amin(frequency_gt)

\* lines 41-89: [exc, frequency]; the arguments of the last log.info (lines
\* 82-86) read frequency_bf[0]
set_beamformer_frequencies(gain_table, array) ==
    LET array_name == gain_table.configuration.name
        frequency_gt == gain_table.frequency
        selected == selected_array(array, array_name)
    IN IF Len(frequency_gt) <= 1
       THEN [exc |-> NoExc, frequency |-> frequency_gt]
       ELSE IF ~selected.none /\ selected.s \in {"LOW", "MID"}
       THEN LET frequency_bf ==
                    numpy_arange(starting_freq_bf(selected.s, frequency_gt),
                                 numpy_amax(frequency_gt),
                                 dfrequency_bf(selected.s))
            IN IF frequency_bf = <<>>
               THEN [exc |-> IndexError("index 0 is out of bounds")]
               ELSE [exc |-> NoExc, frequency |-> frequency_bf]
       ELSE [exc |-> NoExc, frequency |-> frequency_gt]

----------------------------------------------------------------------------
(* State machine *)

Init ==
    /\ op = "idle"
    /\ args = [calibration_context |-> <<>>]
    /\ ret = [exc |-> NoExc]
    /\ gaintables \in GaintablesInputs
    /\ calls = <<>>
    /\ heap = EmptyHeap

\* apply_calibration_chain(vis, gaintables, calibration_context, controls,
\* iteration); gaintables is a required argument, a dict
ApplyCalibrationChain ==
    /\ op = "idle"
    /\ ~gaintables.none
    /\ \E vis \in VisInputs, ctx \in Contexts, controls \in ControlsInputs,
          iteration \in 0..MaxFirst :
        LET a == [vis |-> vis, gaintables |-> gaintables,
                  calibration_context |-> ctx, controls |-> controls,
                  iteration |-> iteration]
            r == apply_calibration_chain(a)
        IN /\ op' = "apply_calibration_chain"
           /\ args' = a
           /\ ret' = IF r.exc = NoExc THEN [exc |-> NoExc, vis |-> r.vis]
                                     ELSE [exc |-> r.exc]
           /\ calls' = calls \o r.calls
           /\ UNCHANGED <<gaintables, heap>>

\* calibrate_chain(vis, model_vis, gaintables, calibration_context, controls,
\* iteration, tol)
CalibrateChain ==
    /\ op = "idle"
    /\ \E vis \in VisInputs, model_vis \in ModelInputs, ctx \in Contexts,
          controls \in ControlsInputs, iteration \in 0..MaxFirst :
        LET a == [vis |-> vis, model_vis |-> model_vis, gaintables |-> gaintables,
                  calibration_context |-> ctx, controls |-> controls,
                  iteration |-> iteration, tol |-> Tol]
            r == calibrate_chain(a)
        IN /\ op' = "calibrate_chain"
           /\ args' = a
           /\ ret' = IF r.exc = NoExc
                     THEN [exc |-> NoExc, vis |-> r.vis, gaintables |-> r.gaintables]
                     ELSE [exc |-> r.exc]
           /\ calls' = calls \o r.calls
           /\ gaintables' = r.caller
           /\ UNCHANGED heap

\* solve_calibrate_chain(vis, model_vis, gaintables, calibration_context,
\* controls, iteration, tol)
SolveCalibrateChain ==
    /\ op = "idle"
    /\ \E vis \in VisInputs, model_vis \in ModelInputs, ctx \in Contexts,
          controls \in ControlsInputs, iteration \in 0..MaxFirst :
        LET a == [vis |-> vis, model_vis |-> model_vis, gaintables |-> gaintables,
                  calibration_context |-> ctx, controls |-> controls,
                  iteration |-> iteration, tol |-> Tol]
            r == solve_calibrate_chain(a)
        IN /\ op' = "solve_calibrate_chain"
           /\ args' = a
           /\ ret' = IF r.exc = NoExc THEN [exc |-> NoExc, gaintables |-> r.gaintables]
                                     ELSE [exc |-> r.exc]
           /\ calls' = calls \o r.calls
           /\ gaintables' = r.caller
           /\ UNCHANGED heap

Next ==
    \/ ApplyCalibrationChain
    \/ CalibrateChain
    \/ SolveCalibrateChain

Spec == Init /\ [][Next]_vars

\* the Jones multiplier on its own
InitJones ==
    /\ op = "idle"
    /\ args = [elementwise |-> FALSE]
    /\ ret = [exc |-> NoExc]
    /\ gaintables = None
    /\ calls = <<>>
    /\ heap = EmptyHeap

\* multiply_gaintable_jones(gain_table1, gain_table2, elementwise)
MultiplyGaintableJones ==
    /\ op = "idle"
    /\ \E gain_table1 \in JonesTables(1), gain_table2 \in JonesTables(2),
          elementwise \in BOOLEAN :
        /\ op' = "multiply_gaintable_jones"
        /\ args' = [gain_table1 |-> gain_table1, gain_table2 |-> gain_table2,
                    elementwise |-> elementwise]
        /\ ret' = multiply_gaintable_jones(gain_table1, gain_table2, elementwise)
        /\ UNCHANGED <<gaintables, calls, heap>>

\* multiply_gaintable_jones with the identity table that fits gain_table on
\* its right, and with the one that fits it on its left
MultiplyByIdentity ==
    /\ op = "idle"
    /\ \E gain_table \in JonesTables(1), jones_type \in JonesTypes, left \in BOOLEAN :
        LET shape == gain_table.gain.shape
            identity == IdentityTable(jones_type,
                            IF left THEN <<shape[1], shape[2], shape[3], shape[4], shape[4]>>
                            ELSE <<shape[1], shape[2], shape[3], shape[5], shape[5]>>, 2)
            gain_table1 == IF left THEN identity ELSE gain_table
            gain_table2 == IF left THEN gain_table ELSE identity
        IN /\ op' = "multiply_gaintable_jones"
           /\ args' = [gain_table1 |-> gain_table1, gain_table2 |-> gain_table2,
                       elementwise |-> FALSE]
           /\ ret' = multiply_gaintable_jones(gain_table1, gain_table2, FALSE)
           /\ UNCHANGED <<gaintables, calls, heap>>

InitDelay ==
    /\ op = "idle"
    /\ args = [reference_to_centre |-> TRUE]
    /\ ret = [exc |-> NoExc]
    /\ gaintables = None
    /\ calls = <<>>
    /\ heap = EmptyHeap

\* expand_delay_phase(gain_table, frequency, reference_to_centre)
ExpandDelayPhase ==
    /\ op = "idle"
    /\ \E gain_table \in DelayTables, frequency \in TargetFrequencies,
          reference_to_centre \in BOOLEAN :
        /\ op' = "expand_delay_phase"
        /\ args' = [gain_table |-> gain_table, frequency |-> frequency,
                    reference_to_centre |-> reference_to_centre]
        /\ ret' = expand_delay_phase(gain_table, frequency, reference_to_centre)
        /\ UNCHANGED <<gaintables, calls, heap>>

NextDelay ==
    \/ ExpandDelayPhase

SpecDelay == InitDelay /\ [][NextDelay]_vars

InitFrame ==
    /\ op = "idle"
    /\ args = [at |-> <<>>]
    /\ ret = [exc |-> NoExc]
    /\ gaintables = None
    /\ calls = <<>>
    /\ \E k \in HeapDelayTables, b \in HeapJonesTables, f \in HeapFrequencies :
        heap = [tables |-> <<k, b>>, frequency |-> <<f>>]

\* multiply_gaintable_jones on two of the caller's tables; the caller keeps
\* the table returned or drops it
MultiplyHeapTables ==
    \E i \in DOMAIN heap.tables, j \in DOMAIN heap.tables,
       elementwise \in BOOLEAN, keep \in KeepOrDrop :
        LET r == multiply_gaintable_jones(heap.tables[i], heap.tables[j], elementwise)
        IN /\ op' = "multiply_gaintable_jones"
           /\ args' = [at |-> <<i, j>>, elementwise |-> elementwise]
           /\ ret' = r
           /\ heap' = Keep(heap, r, keep)
           /\ UNCHANGED <<gaintables, calls>>

\* expand_delay_phase on one of the caller's tables and one of the caller's
\* frequency sequences
ExpandHeapTable ==
    \E i \in DOMAIN heap.tables, k \in DOMAIN heap.frequency,
       reference_to_centre \in BOOLEAN, keep \in KeepOrDrop :
        LET r == expand_delay_phase(heap.tables[i], heap.frequency[k],
                                    reference_to_centre)
            after == [heap EXCEPT !.frequency[k] =
                        expand_delay_phase_frequency(heap.tables[i], @,
                                                     reference_to_centre)]
        IN /\ op' = "expand_delay_phase"
           /\ args' = [at |-> <<i, k>>, reference_to_centre |-> reference_to_centre]
           /\ ret' = r
           /\ heap' = Keep(after, r, keep)
           /\ UNCHANGED <<gaintables, calls>>

\* resample_bandpass(f_out, gain_table, alg) on one of the caller's frequency
\* sequences and one of the caller's tables, in a build with either numpy; it
\* returns an array
ResampleHeapTable ==
    \E k \in DOMAIN heap.frequency, i \in DOMAIN heap.tables,
       alg \in {"polyfit", "interp", "cubicspl", "nearest"} :
      \* only the polynomial interpolator reads the two
      \E uninitialised \in IF alg = "polyfit" THEN Uninitialised ELSE {0},
         numpy_raises \in IF alg = "polyfit" THEN BOOLEAN ELSE {FALSE} :
        /\ op' = "resample_bandpass"
        /\ args' = [at |-> <<k, i>>, alg |-> alg]
        /\ ret' = resample_bandpass(heap.frequency[k], heap.tables[i], alg,
                                    uninitialised, numpy_raises)
        /\ UNCHANGED <<gaintables, calls, heap>>

NextFrame ==
    \/ MultiplyHeapTables
    \/ ExpandHeapTable
    \/ ResampleHeapTable

SpecFrame == InitFrame /\ [][NextFrame]_vars

\* a new PolynomialInterpolator; the build's numpy answers a comparison of
\* arrays that do not broadcast with False
InitInterp ==
    /\ op = "idle"
    /\ args = [f_out |-> <<>>]
    /\ ret = [exc |-> NoExc]
    /\ gaintables = None
    /\ calls = <<>>
    /\ heap = [sel |-> PolynomialInterpolator, numpy_raises |-> FALSE]

\* sel.set_edges(edges), once and before the first interp
SetEdges ==
    /\ op = "idle"
    /\ calls = <<>>
    /\ \E edges \in EdgeLists :
        /\ heap' = [heap EXCEPT !.sel = set_edges(@, edges)]
        /\ calls' = <<[fn |-> "set_edges", edges |-> edges]>>
        /\ UNCHANGED <<op, args, ret, gaintables>>

\* sel.set_polydeg(polydeg), once and before the first interp
SetPolydeg ==
    /\ op = "idle"
    /\ heap.sel.polydeg = PolynomialInterpolator.polydeg
    /\ \E polydeg \in 0..2 :
        /\ heap' = [heap EXCEPT !.sel = set_polydeg(@, polydeg)]
        /\ UNCHANGED <<op, args, ret, gaintables, calls>>

\* sel.interp(f_out, f_in, gain) with the gains of Spectrum(abc, len(f_in))
InterpCall(f_out, f_in, abc, uninitialised) ==
    LET gain == Spectrum(abc, Len(f_in))
        r == polynomial_interp(heap.sel, f_out, f_in, gain, uninitialised,
                               heap.numpy_raises)
    IN /\ op' = "interp"
       /\ args' = [f_out |-> f_out, f_in |-> f_in, gain |-> gain, self |-> heap.sel]
       /\ ret' = r
       /\ heap' = [heap EXCEPT !.sel = r.self]
       /\ UNCHANGED <<gaintables, calls>>

\* the first interp call of an interpolator
Interp ==
    /\ op = "idle"
    /\ \E f_out \in TargetAxes, f_in \in SourceGrids,
          abc \in SpectrumCoefficients, uninitialised \in Uninitialised :
        InterpCall(f_out, f_in, abc, uninitialised)

NextInterp ==
    \/ SetEdges
    \/ SetPolydeg
    \/ Interp

SpecInterp == InitInterp /\ [][NextInterp]_vars

\* a new PolynomialInterpolator, in a build with either numpy
InitInterpSeq ==
    /\ op = "idle"
    /\ args = [f_out |-> <<>>]
    /\ ret = [exc |-> NoExc]
    /\ gaintables = None
    /\ calls = <<>>
    /\ \E numpy_raises \in BOOLEAN :
        heap = [sel |-> PolynomialInterpolator, numpy_raises |-> numpy_raises]

\* one more interp call on the same interpolator, on a source grid of any
\* length, the gains lying on a straight line
InterpAgain ==
    \E f_in \in SourceGrids, uninitialised \in Uninitialised :
        InterpCall(<<3, 5>>, f_in, <<0, 1, 0>>, uninitialised)

NextInterpSeq ==
    \/ SetEdges
    \/ InterpAgain

SpecInterpSeq == InitInterpSeq /\ [][NextInterpSeq]_vars

InitPlanner ==
    /\ op = "idle"
    /\ args = [array |-> NoString]
    /\ ret = [exc |-> NoExc]
    /\ gaintables = None
    /\ calls = <<>>
    /\ heap = EmptyHeap

\* set_beamformer_frequencies(gain_table, array)
SetBeamformerFrequencies ==
    /\ op = "idle"
    /\ \E name \in ConfigurationNames, frequency \in FrequencyAxes,
          array \in ArrayInputs :
        LET gain_table == [configuration |-> [name |-> name],
                           frequency |-> frequency]
        IN /\ op' = "set_beamformer_frequencies"
           /\ args' = [gain_table |-> gain_table, array |-> array]
           /\ ret' = set_beamformer_frequencies(gain_table, array)
           /\ UNCHANGED <<gaintables, calls, heap>>

NextPlanner ==
    \/ SetBeamformerFrequencies

SpecPlanner == InitPlanner /\ [][NextPlanner]_vars

\* solve_calibrate_chain alone
NextSolve ==
    \/ SolveCalibrateChain

SpecSolve == Init /\ [][NextSolve]_vars

\* most calibrate_chain calls of a sequence
MaxCalls == 2

\* the contexts, controls, iterations and first mappings of a sequence of
\* calibrate_chain calls: controls with first_selfcal 1 for T, for G or for
\* neither, and controls without an entry for G
IterContexts == {<<"T">>, <<"G", "T">>, <<"T", "T">>}
IterControls ==
    {Dict(CallerControls({"T", "G"}, [c \in {"T", "G"} |-> IF c = late THEN 1 ELSE 0])) :
        late \in {"T", "G", "P"}}
    \cup {Dict(CallerControls({"T"}, [c \in {"T"} |-> 0]))}
IterIterations == {0, 1}
IterGaintables ==
    {None, Dict([c \in {"P"} |-> StoredTable(c)]),
     Dict([c \in {"T", "P"} |-> StoredTable(c)])}

\* before the first call of a sequence; heap.history holds the calls made,
\* each with its arguments, its collaborator calls and what it returned
InitIter ==
    /\ op = "idle"
    /\ args = [calibration_context |-> <<>>]
    /\ ret = [exc |-> NoExc]
    /\ gaintables \in IterGaintables
    /\ calls = <<>>
    /\ heap = [history |-> <<>>]

\* calibrate_chain(vis, model_vis, gaintables, calibration_context, controls,
\* iteration) on the mapping the previous call returned; a call that raises
\* returns none, and the next call is given the same mapping again
CalibrateChainNext ==
    /\ Len(heap.history) < MaxCalls
    /\ \E ctx \in IterContexts, controls \in IterControls,
          iteration \in IterIterations :
        LET a == [vis |-> [flagged_weight_nonzero |-> TRUE, applied |-> <<>>],
                  model_vis |-> "nonzero", gaintables |-> gaintables,
                  calibration_context |-> ctx, controls |-> controls,
                  iteration |-> iteration, tol |-> Tol]
            r == calibrate_chain(a)
        IN /\ op' = "calibrate_chain"
           /\ args' = a
           /\ ret' = IF r.exc = NoExc
                     THEN [exc |-> NoExc, vis |-> r.vis, gaintables |-> r.gaintables]
                     ELSE [exc |-> r.exc]
           /\ calls' = calls \o r.calls
           /\ gaintables' = IF r.exc = NoExc THEN r.gaintables ELSE r.caller
           /\ heap' = [history |-> Append(heap.history,
                            [a |-> a, exc |-> r.exc, calls |-> r.calls,
                             gaintables |-> r.gaintables])]

NextIter ==
    \/ CalibrateChainNext

SpecIter == InitIter /\ [][NextIter]_vars

NextJones ==
    \/ MultiplyGaintableJones
    \/ MultiplyByIdentity

SpecJones == InitJones /\ [][NextJones]_vars

----------------------------------------------------------------------------
(* Properties of the chain calibration controller *)

ctx == args.calibration_context

\* the tags that have a controls entry, as the caller sees them: the default
\* controls hold T, G and B
ControlTags == IF args.controls.none THEN {"T", "G", "B"} ELSE DOMAIN args.controls.d

\* the first_selfcal the caller set for tag c: 0 in the default controls
FirstSelfcal(c) == IF args.controls.none THEN 0 ELSE args.controls.d[c].first_selfcal

\* a tag of the context without a controls entry
MissingEntry == \E i \in 1..Len(ctx) : ctx[i] \notin ControlTags

\* tag c is skipped at this iteration
Skipped(c) == c \in ControlTags /\ args.iteration < FirstSelfcal(c)
Reached(c) == c \in ControlTags /\ args.iteration >= FirstSelfcal(c)

\* the entry of tag c in an optional mapping: {} when absent
Entry(m, c) == IF ~m.none /\ c \in DOMAIN m.d THEN {m.d[c]} ELSE {}

\* the collaborator calls made for tag c
CallsFor(c) == {k \in 1..Len(calls) : calls[k].tag = c}

\* C1: in calibrate_chain, for every tag c of the context with
\* iteration < controls[c].first_selfcal, neither the constructor nor the
\* solver nor the apply function is called for c, and the mapping's entry for
\* c (present or absent) is after the call what it was before.
C1_SkippedTagUntouched ==
    op = "calibrate_chain" =>
        \A i \in 1..Len(ctx) :
            Skipped(ctx[i]) =>
                /\ CallsFor(ctx[i]) = {}
                /\ Entry(gaintables, ctx[i]) = Entry(args.gaintables, ctx[i])
                /\ ret.exc = NoExc =>
                     Entry(ret.gaintables, ctx[i]) = Entry(args.gaintables, ctx[i])

\* T is solved and applied, G, which has a stored table, is skipped
C1_Witness ==
    /\ op = "calibrate_chain"
    /\ ctx = <<"T", "G">>
    /\ ~args.controls.none
    /\ Reached("T") /\ Skipped("G")
    /\ Entry(args.gaintables, "G") # {}
    /\ ret.exc = NoExc
    /\ CallsFor("T") # {}

\* the tags of the context that are solved at this iteration, in order
ActiveTags == SelectSeq(ctx, Reached)

\* the solver and apply calls, in order
SolveApplyCalls == SelectSeq(calls, LAMBDA e : e.fn # "create_gaintable_from_visibility")

\* the input visibility with the inverse corrections of the first k solved
\* tables applied in order
CorrectedVis(k) ==
    [args.vis EXCEPT !.applied =
        [j \in 1..k |-> [gt |-> SolveApplyCalls[2 * j - 1].out, inverse |-> TRUE]]]

\* C2: in calibrate_chain the active tags are processed in context order,
\* each solved, then applied with inverse=True, before the next is solved: the
\* k-th solve gets the input visibility with the inverse corrections of the
\* first k-1 freshly solved tables, and the returned visibility has them all.
C2_SolveThenApplyInOrder ==
    (op = "calibrate_chain" /\ ret.exc = NoExc) =>
        /\ Len(SolveApplyCalls) = 2 * Len(ActiveTags)
        /\ \A k \in 1..Len(ActiveTags) :
            LET solve == SolveApplyCalls[2 * k - 1]
                apply == SolveApplyCalls[2 * k]
            IN /\ solve.fn = "solve_gaintable"
               /\ solve.tag = ActiveTags[k]
               /\ solve.vis = CorrectedVis(k - 1)
               /\ apply.fn = "apply_gaintable"
               /\ apply.tag = ActiveTags[k]
               /\ apply.inverse
               /\ apply.gt = solve.out
               /\ apply.vis = CorrectedVis(k - 1)
        /\ ret.vis = CorrectedVis(Len(ActiveTags))

\* two active tags: the second is solved on the visibility corrected by the first
C2_Witness ==
    /\ op = "calibrate_chain"
    /\ ret.exc = NoExc
    /\ Len(ActiveTags) = 2
    /\ ActiveTags[1] # ActiveTags[2]
    /\ Len(ret.vis.applied) = 2

\* the tags of the context that qualify in apply-only mode, in order
QualifyingTags ==
    SelectSeq(ctx, LAMBDA c : Reached(c) /\ Entry(args.gaintables, c) # {})

\* C3: in apply_calibration_chain the returned visibility is the input
\* visibility with the corrections of all qualifying tags (iteration >=
\* first_selfcal and a stored table) applied one after another in context order.
C3_ApplyAccumulates ==
    (op = "apply_calibration_chain" /\ ret.exc = NoExc) =>
        ret.vis = [args.vis EXCEPT !.applied =
                    [j \in 1..Len(QualifyingTags) |->
                        [gt |-> args.gaintables.d[QualifyingTags[j]],
                         inverse |-> FALSE]]]

\* C4: in apply_calibration_chain a tag with iteration >= first_selfcal and no
\* stored table is skipped without error: the call completes and applies the
\* tags that have a stored table.
C4_ApplySkipsTagWithoutTable ==
    (op = "apply_calibration_chain" /\ ~MissingEntry) =>
        /\ ret.exc = NoExc
        /\ \A k \in 1..Len(calls) : Entry(args.gaintables, calls[k].tag) # {}

\* the data are valid for a solve: some flagged weight is nonzero and the
\* model is absent or not identically zero
DataValid == args.vis.flagged_weight_nonzero /\ args.model_vis # "zero"

SolverCallsFor(c) == {k \in CallsFor(c) : calls[k].fn = "solve_gaintable"}

\* C5: in solve_calibrate_chain the solver is invoked for tag c if and only if
\* iteration >= controls[c].first_selfcal, the observed visibility has a
\* nonzero flagged weight and model_vis is None or has a nonzero sample; when
\* that is false, a table already stored for c is returned unchanged.
C5_SolveIffActiveAndValid ==
    op = "solve_calibrate_chain" =>
        /\ \A k \in 1..Len(calls) :
            calls[k].fn = "solve_gaintable" => (Reached(calls[k].tag) /\ DataValid)
        /\ ret.exc = NoExc =>
            \A i \in 1..Len(ctx) :
                IF Reached(ctx[i]) /\ DataValid
                THEN SolverCallsFor(ctx[i]) # {}
                ELSE /\ SolverCallsFor(ctx[i]) = {}
                     /\ Entry(args.gaintables, ctx[i]) # {} =>
                          /\ Entry(ret.gaintables, ctx[i]) = Entry(args.gaintables, ctx[i])
                          /\ Entry(gaintables, ctx[i]) = Entry(args.gaintables, ctx[i])

\* the model is identically zero: no solve, and the stored table of T is kept
C5_Witness ==
    /\ op = "solve_calibrate_chain"
    /\ ret.exc = NoExc
    /\ ctx = <<"T">>
    /\ Reached("T")
    /\ args.vis.flagged_weight_nonzero /\ args.model_vis = "zero"
    /\ Entry(args.gaintables, "T") # {}
    /\ Entry(ret.gaintables, "T") = Entry(args.gaintables, "T")

ChainModes == {"apply_calibration_chain", "calibrate_chain", "solve_calibrate_chain"}

C8_MissingControlsEntryFailsFirst ==
    (op \in ChainModes /\ MissingEntry) =>
        /\ calls = <<>>
        /\ gaintables = args.gaintables

\* C9: in calibrate_chain, if iteration is below first_selfcal of every tag of
\* the context, the call returns the input visibility and the input mapping
\* unchanged, without a constructor, solver or apply call.
C9_NothingActiveNoOp ==
    (op = "calibrate_chain" /\ \A i \in 1..Len(ctx) : Skipped(ctx[i])) =>
        /\ ret.exc = NoExc
        /\ ret.vis = args.vis
        /\ ret.gaintables = args.gaintables
        /\ gaintables = args.gaintables
        /\ calls = <<>>

\* both tags are below their first_selfcal, T has a stored table
C9_Witness ==
    /\ op = "calibrate_chain"
    /\ ctx = <<"T", "G">>
    /\ Skipped("T") /\ Skipped("G")
    /\ Entry(args.gaintables, "T") # {}
    /\ ret.exc = NoExc

----------------------------------------------------------------------------
(* Properties of the Jones multiplier *)

DelayError == ValueError("Cannot multiply delays. Use expand_delay_phase")

\* the operands' shapes are incompatible in the mode of the call
ShapesIncompatible ==
    LET s1 == args.gain_table1.gain.shape
        s2 == args.gain_table2.gain.shape
    IN \/ s1[1] # s2[1]
       \/ s1[2] # s2[2]
       \/ (s1[3] # s2[3] /\ s1[3] # 1 /\ s2[3] # 1)
       \/ (args.elementwise /\ (s1[4] # s2[4] \/ s1[5] # s2[5]))
       \/ (~args.elementwise /\ s1[5] # s2[4])

\* C10: multiply_gaintable_jones fails with the 'Cannot multiply delays' error
\* whenever an operand has jones_type K, in matrix and in elementwise mode,
\* also when the shapes are incompatible.
C10_DelayOperandFails ==
    (/\ op = "multiply_gaintable_jones"
     /\ (args.gain_table1.jones_type = "K" \/ args.gain_table2.jones_type = "K")) =>
        ret.exc = DelayError

\* the right operand is a delay table and the shapes do not fit either
C10_Witness ==
    /\ op = "multiply_gaintable_jones"
    /\ args.gain_table1.jones_type = "B"
    /\ args.gain_table2.jones_type = "K"
    /\ args.elementwise
    /\ ShapesIncompatible
    /\ ret.exc = DelayError

\* the shapes of the operands' gains, and the outcome of the call
gain1 == args.gain_table1.gain.shape
gain2 == args.gain_table2.gain.shape
Multiplied ==
    /\ op = "multiply_gaintable_jones"
    /\ args.gain_table1.jones_type # "K"
    /\ args.gain_table2.jones_type # "K"
Failed(msg) == ret.exc = ValueError(msg) /\ DOMAIN ret = {"exc"}
Succeeded == ret.exc = NoExc /\ "table" \in DOMAIN ret

\* C11: multiply_gaintable_jones fails with a shape error and produces no
\* table when the operands' time axes differ in length, or their antenna
\* axes do, or their channel axes do and neither has length 1; channel
\* lengths (n, 1), (1, n) and (n, n) raise no error for the axes.
C11_AxisLengthsChecked ==
    Multiplied =>
        IF gain1[1] # gain2[1] THEN Failed("time error")
        ELSE IF gain1[2] # gain2[2] THEN Failed("antenna error")
        ELSE IF gain1[3] # gain2[3] /\ gain1[3] # 1 /\ gain2[3] # 1
             THEN Failed("frequency error")
        ELSE ret.exc \notin {ValueError("time error"), ValueError("antenna error"),
                             ValueError("frequency error")}

\* channel axes of lengths 2 and 3 on tables of equal time and antenna axes
C11_Witness ==
    /\ Multiplied
    /\ gain1[1] = gain2[1] /\ gain1[2] = gain2[2]
    /\ gain1[3] = 2 /\ gain2[3] = 3
    /\ Failed("frequency error")

\* the time, antenna and channel axes of the operands fit
AxesFit ==
    /\ gain1[1] = gain2[1]
    /\ gain1[2] = gain2[2]
    /\ (gain1[3] = gain2[3] \/ gain1[3] = 1 \/ gain2[3] = 1)

\* C12: with axes that fit, the elementwise product fails with a shape error
\* when the operands' receptor axes are not identical, and the matrix product
\* when the left operand's second receptor axis does not match the right
\* operand's first; a matrix product is made of conformable matrices only.
C12_ReceptorAxesChecked ==
    (Multiplied /\ AxesFit) =>
        /\ (args.elementwise /\ (gain1[4] # gain2[4] \/ gain1[5] # gain2[5]))
                => Failed("pol error")
        /\ (~args.elementwise /\ gain1[5] # gain2[4])
                => Failed("Matrices not compatible for multiplication")
        /\ (~args.elementwise /\ Succeeded) => gain1[5] = gain2[4]

\* a matrix product of a 2x2 and a 1x2 Jones matrix is asked for
C12_Witness ==
    /\ Multiplied /\ AxesFit
    /\ ~args.elementwise
    /\ gain1[4] = 2 /\ gain1[5] = 2 /\ gain2[4] = 1 /\ gain2[5] = 2
    /\ Failed("Matrices not compatible for multiplication")

\* the channel of an operand with nchan channels that the claim pairs with
\* output channel c
ClaimedChannel(nchan, c) == IF nchan > 1 THEN c ELSE 1

\* element (i, j) of the product of the Jones matrices m1 and m2, which have
\* inner receptor axes of length n
ClaimedProduct(m1, m2, n, i, j, elementwise) ==
    IF elementwise THEN CMul(m1[i, j], m2[i, j])
    ELSE IF n = 1 THEN CMul(m1[i, 1], m2[1, j])
    ELSE CAdd(CMul(m1[i, 1], m2[1, j]), CMul(m1[i, 2], m2[2, j]))

\* the Jones matrix of array g at (t, a, c)
JonesMatrix(g, t, a, c) ==
    [i \in 1..g.shape[4], j \in 1..g.shape[5] |-> g.data[<<t, a, c, i, j>>]]

\* C13: for compatible operands the output gain has the shape (time, antenna,
\* max(chan1, chan2), receptor1 of the left, receptor2 of the right), and its
\* Jones matrix at every (t, a, c) is the product, in the mode of the call, of
\* left[t, a, c1] and right[t, a, c2], where ci is c when operand i has more
\* than one channel and the operand's only channel otherwise.
C13_ProductShapeAndValues ==
    (Multiplied /\ Succeeded) =>
        LET g1 == args.gain_table1.gain
            g2 == args.gain_table2.gain
            out == ret.table.gain
        IN /\ out.shape = <<gain1[1], gain1[2],
                            IF gain1[3] >= gain2[3] THEN gain1[3] ELSE gain2[3],
                            gain1[4], gain2[5]>>
           /\ DOMAIN out.data = Indices5(out.shape)
           /\ \A x \in Indices5(out.shape) :
                out.data[x] =
                    ClaimedProduct(
                        JonesMatrix(g1, x[1], x[2], ClaimedChannel(gain1[3], x[3])),
                        JonesMatrix(g2, x[1], x[2], ClaimedChannel(gain2[3], x[3])),
                        gain1[5], x[4], x[5], args.elementwise)

\* a matrix product of 2x2 Jones matrices, the left operand with three
\* channels and the right one with a single channel
C13_Witness ==
    /\ Multiplied /\ Succeeded
    /\ ~args.elementwise
    /\ gain1[3] = 3 /\ gain2[3] = 1
    /\ gain1[4] = 2 /\ gain1[5] = 2 /\ gain2[5] = 2
    /\ ret.table.gain.shape[3] = 3

\* every Jones matrix of the table is the identity
IsIdentity(gain_table) ==
    /\ gain_table.gain.shape[4] = gain_table.gain.shape[5]
    /\ \A x \in Indices5(gain_table.gain.shape) :
        gain_table.gain.data[x] = IF x[4] = x[5] THEN C(1, 0) ELSE C(0, 0)

\* C14: the matrix product of a table A and a table of identity Jones
\* matrices over the same times, antennas and channels, on A's left or on its
\* right, has A's gain at every (t, a, c).
C14_IdentityIsNeutral ==
    (Multiplied /\ ~args.elementwise /\ gain1[1] = gain2[1] /\ gain1[2] = gain2[2]
        /\ gain1[3] = gain2[3] /\ gain1[5] = gain2[4]) =>
        /\ IsIdentity(args.gain_table2) =>
                (Succeeded /\ ret.table.gain = args.gain_table1.gain)
        /\ IsIdentity(args.gain_table1) =>
                (Succeeded /\ ret.table.gain = args.gain_table2.gain)

\* the identity on the left of a table of 2x2 Jones matrices that is not
\* itself the identity
C14_Witness ==
    /\ Multiplied /\ ~args.elementwise
    /\ IsIdentity(args.gain_table1)
    /\ ~IsIdentity(args.gain_table2)
    /\ gain2[4] = 2 /\ gain2[5] = 2 /\ gain2[3] = 2
    /\ Succeeded
    /\ ret.table.gain = args.gain_table2.gain

\* the frequency, weight and residual of the output are those of table t
MetadataOf(t) ==
    /\ ret.table.frequency = t.frequency
    /\ ret.table.weight = t.weight
    /\ ret.table.residual = t.residual

\* C15: the output's frequency, weight and residual are those of the operand
\* with more than one channel, the left one's when both have, and the output
\* has as many frequencies as its gain has channels.
C15_MetadataOfWiderOperand ==
    (Multiplied /\ Succeeded) =>
        /\ gain1[3] > 1 => MetadataOf(args.gain_table1)
        /\ (gain1[3] = 1 /\ gain2[3] > 1) => MetadataOf(args.gain_table2)
        /\ Len(ret.table.frequency) = ret.table.gain.shape[3]

\* the right operand alone has more than one channel
C15_Witness ==
    /\ Multiplied /\ Succeeded
    /\ gain1[3] = 1 /\ gain2[3] = 3
    /\ MetadataOf(args.gain_table2)
    /\ ~MetadataOf(args.gain_table1)
    /\ Len(ret.table.frequency) = 3

\* C16: the output's jones_type is the operands' jones_type when they have the
\* same, and B otherwise; it is never K.
C16_ProductJonesType ==
    (Multiplied /\ Succeeded) =>
        /\ ret.table.jones_type =
                IF args.gain_table1.jones_type = args.gain_table2.jones_type
                THEN args.gain_table1.jones_type ELSE "B"
        /\ ret.table.jones_type # "K"

\* a G table times a B table
C16_Witness ==
    /\ Multiplied /\ Succeeded
    /\ args.gain_table1.jones_type = "G"
    /\ args.gain_table2.jones_type = "B"
    /\ ret.table.jones_type = "B"

\* C17: multiply_gaintable_jones, expand_delay_phase and resample_bandpass
\* leave the gain tables and the target frequency sequences they are given as
\* they were: over any sequence of calls, failed ones too, every object of the
\* caller keeps its value.
C17_InputsUnmodified ==
    [][/\ \A i \in DOMAIN heap.tables : heap'.tables[i] = heap.tables[i]
       /\ \A k \in DOMAIN heap.frequency : heap'.frequency[k] = heap.frequency[k]]_vars

\* a delay table expanded around its reference, over two target frequencies,
\* after an earlier call whose table the caller kept
C17_Witness ==
    /\ op = "expand_delay_phase"
    /\ args.reference_to_centre
    /\ ret.exc = NoExc
    /\ Len(heap.frequency[args.at[2]]) = 2
    /\ Len(heap.tables) = 3
    /\ heap.tables[3] # ret.table

\* expand_delay_phase was called
Expanded == op = "expand_delay_phase"

\* C18: expand_delay_phase fails and returns no table when the table's
\* jones_type is not K, and when it is K and the table does not have exactly
\* one frequency; it succeeds for a K table of exactly one frequency.
C18_DelayTableRequired ==
    Expanded =>
        IF args.gain_table.jones_type # "K" THEN Failed("Wrong Jones type")
        ELSE IF Len(args.gain_table.frequency) # 1
             THEN Failed("Expect a single frequency")
        ELSE Succeeded

\* a K table with two frequencies
C18_Witness ==
    /\ Expanded
    /\ args.gain_table.jones_type = "K"
    /\ Len(args.gain_table.frequency) = 2
    /\ Failed("Expect a single frequency")

\* the target channels at the reference frequency of the input table
AtReference(x) == args.frequency[x[3]] = args.gain_table.frequency[1]

\* the gain of the input table that output element x is made from
InputGain(x) == args.gain_table.gain.data[<<x[1], x[2], 1, x[4], x[5]>>]

\* C19: with reference_to_centre the output gain is exactly 1 at every target
\* channel at the input's reference frequency, for every time, antenna and
\* receptor pair, whatever the input's phase; without it the gain there is
\* exp(i phase0), phase0 the phase of the input gain.
C19_UnitGainAtReference ==
    /\ (Expanded /\ Succeeded) =>
        \A x \in Indices5(ret.table.gain.shape) :
            AtReference(x) =>
                ret.table.gain.data[x] =
                    IF args.reference_to_centre THEN C(1, 0)
                    ELSE Complex(1, 0, numpy_angle(InputGain(x))[1],
                                 numpy_angle(InputGain(x))[2])
    /\ (Expanded /\ Succeeded /\ ~args.reference_to_centre) =>
        \A x \in Indices5(ret.table.gain.shape) :
            AtReference(x) =>
                \* g = z / |z|, up to its sign, for the input gain z # 0
                LET g == ret.table.gain.data[x]
                    z == InputGain(x)
                IN CMul(CMul(g, g), C(z[1] * z[1] + z[2] * z[2], 0)) = CMul(z, z)

\* referenced to the centre, a target channel at the reference frequency made
\* from a gain of phase pi / 2, next to a channel off the reference
C19_Witness ==
    /\ Expanded /\ Succeeded
    /\ args.reference_to_centre
    /\ Len(args.frequency) = 2
    /\ \E x \in Indices5(ret.table.gain.shape) :
        /\ AtReference(x)
        /\ InputGain(x) = C(0, 2)
        /\ ret.table.gain.data[x] = C(1, 0)
        /\ \E y \in Indices5(ret.table.gain.shape) :
            ~AtReference(y) /\ ret.table.gain.data[y] # C(1, 0)

\* C20: the table expand_delay_phase returns has jones_type B, a gain with
\* as many channels as there are target frequencies and the input's other
\* axes, a weight of the gain's shape filled with ones and a residual of
\* shape (time, channel, receptor1, receptor2) filled with zeros.
C20_ExpandedTableShape ==
    (Expanded /\ Succeeded) =>
        LET in == args.gain_table.gain.shape
            out == ret.table
        IN /\ out.jones_type = "B"
           /\ out.gain.shape = <<in[1], in[2], Len(args.frequency), in[4], in[5]>>
           /\ DOMAIN out.gain.data = Indices5(out.gain.shape)
           /\ out.weight.shape = out.gain.shape
           /\ out.weight.data = [x \in Indices5(out.gain.shape) |-> 1]
           /\ out.residual.shape = <<in[1], Len(args.frequency), in[4], in[5]>>
           /\ out.residual.data = [x \in Indices4(out.residual.shape) |-> 0]

\* two antennas expanded to one target channel
C20_Witness ==
    /\ Expanded /\ Succeeded
    /\ args.gain_table.gain.shape[2] = 2
    /\ Len(args.frequency) = 1
    /\ ret.table.gain.shape[3] = 1
    /\ ret.table.residual.shape[2] = 1
    /\ ret.table.jones_type = "B"

\* the constructor calls and the solver calls for tag c in a log of calls
CreateCallsFor(log, c) ==
    LET is(x) == x.fn = "create_gaintable_from_visibility" /\ x.tag = c
    IN SelectSeq(log, is)
SolveCallsFor(log, c) ==
    LET is(x) == x.fn = "solve_gaintable" /\ x.tag = c
    IN SelectSeq(log, is)

\* the entries of a mapping, None having none
Entries(m) == IF m.none THEN EmptyDict ELSE m.d

\* the collaborator calls of the first k calls of the sequence, in order
RECURSIVE CallsUpTo(_)
CallsUpTo(k) == IF k = 0 THEN <<>> ELSE CallsUpTo(k - 1) \o heap.history[k].calls

\* tag c is active in call h of the sequence: in the context, and the
\* iteration has reached its first_selfcal
ActiveIn(h, c) ==
    /\ \E i \in DOMAIN h.a.calibration_context : h.a.calibration_context[i] = c
    /\ h.a.iteration >= Controls(h.a)[c].first_selfcal

\* C26: over a sequence of calibrate_chain calls, each given the mapping the
\* previous one returned, the constructor is called for a tag at most once:
\* in a call that returns it is called, once, with the tag as jones_type and
\* the timeslice of the controls, exactly if the tag is active in the call and
\* the mapping given has no entry for it; every solver call for a tag after
\* the first receives the table the previous solver call for that tag
\* returned; and a call changes no entry of a tag that is not in its context.
C26_TablesCarriedAcrossCalls ==
    /\ \A c \in Tags :
        /\ Len(CreateCallsFor(CallsUpTo(Len(heap.history)), c)) <= 1
        /\ LET solves == SolveCallsFor(CallsUpTo(Len(heap.history)), c)
           IN \A j \in 2..Len(solves) : solves[j].gain_table = solves[j - 1].out
    /\ \A k \in DOMAIN heap.history :
        LET h == heap.history[k]
        IN IF h.exc # NoExc THEN h.calls = <<>>
           ELSE \A c \in Tags :
                  LET creates == CreateCallsFor(h.calls, c)
                      solves == SolveCallsFor(h.calls, c)
                  IN /\ IF ActiveIn(h, c)
                        THEN /\ Len(creates) =
                                  IF c \in DOMAIN Entries(h.a.gaintables) THEN 0 ELSE 1
                             /\ \A j \in DOMAIN creates :
                                  /\ creates[j].out.jones_type = c
                                  /\ creates[j].timeslice = Controls(h.a)[c].timeslice
                             /\ Len(solves) >= 1
                             /\ solves[1].gain_table =
                                  IF c \in DOMAIN Entries(h.a.gaintables)
                                  THEN Entries(h.a.gaintables)[c]
                                  ELSE creates[1].out
                             /\ Entries(h.gaintables)[c] = solves[Len(solves)].out
                        ELSE creates = <<>> /\ solves = <<>>
                     /\ (\A i \in DOMAIN h.a.calibration_context :
                            h.a.calibration_context[i] # c) =>
                          /\ c \in DOMAIN Entries(h.gaintables)
                               <=> c \in DOMAIN Entries(h.a.gaintables)
                          /\ c \in DOMAIN Entries(h.gaintables) =>
                               Entries(h.gaintables)[c] = Entries(h.a.gaintables)[c]

\* T is constructed and solved in the first call, with G not yet active, and
\* solved again in the second from the table the first call stored; the
\* stored table of P, never in a context, is as it was
C26_Witness ==
    /\ Len(heap.history) = 2
    /\ heap.history[1].exc = NoExc /\ heap.history[2].exc = NoExc
    /\ heap.history[1].a.gaintables = Dict([c \in {"P"} |-> StoredTable(c)])
    /\ heap.history[1].a.calibration_context = <<"G", "T">>
    /\ ~ActiveIn(heap.history[1], "G")
    /\ Len(CreateCallsFor(heap.history[1].calls, "T")) = 1
    /\ SolveCallsFor(heap.history[2].calls, "T") # <<>>
    /\ SolveCallsFor(heap.history[2].calls, "T")[1].gain_table.nsolve = 1
    /\ CreateCallsFor(heap.history[2].calls, "T") = <<>>
    /\ gaintables.d["P"] = StoredTable("P")

\* solve_calibrate_chain returned; tag c of the context is below its
\* first_selfcal
SolveReturned == op = "solve_calibrate_chain" /\ ret.exc = NoExc
SolveSkipped(c) ==
    /\ \E i \in DOMAIN args.calibration_context : args.calibration_context[i] = c
    /\ args.iteration < Controls(args)[c].first_selfcal

\* C27 as stated: in solve_calibrate_chain a tag with iteration <
\* controls[tag].first_selfcal is skipped as in calibrate_chain: the
\* constructor is not called for it, and the returned mapping has an entry for
\* the tag only if the input mapping had one.
C27_SkippedTagNotConstructed ==
    SolveReturned =>
        \A c \in Tags :
            SolveSkipped(c) =>
                /\ CreateCallsFor(calls, c) = <<>>
                /\ c \in DOMAIN ret.gaintables.d =>
                     c \in DOMAIN Entries(args.gaintables)

\* C27, amended: in solve_calibrate_chain a tag with iteration <
\* controls[tag].first_selfcal is not solved; an entry the input mapping has
\* for it is returned as it was, and when the input mapping has none the
\* constructor is called for it, once, with the tag as jones_type and the
\* timeslice of the controls, and the returned mapping holds the table
\* constructed.
C27_SkippedTagConstructedNotSolved ==
    SolveReturned =>
        \A c \in Tags :
            SolveSkipped(c) =>
                /\ SolveCallsFor(calls, c) = <<>>
                /\ c \in DOMAIN ret.gaintables.d
                /\ IF c \in DOMAIN Entries(args.gaintables)
                   THEN /\ CreateCallsFor(calls, c) = <<>>
                        /\ ret.gaintables.d[c] = Entries(args.gaintables)[c]
                   ELSE /\ Len(CreateCallsFor(calls, c)) = 1
                        /\ CreateCallsFor(calls, c)[1].out.jones_type = c
                        /\ CreateCallsFor(calls, c)[1].timeslice =
                             Controls(args)[c].timeslice
                        /\ ret.gaintables.d[c] = CreateCallsFor(calls, c)[1].out

\* T is below its first_selfcal and has no entry; G is solved
C27_Witness ==
    /\ SolveReturned
    /\ args.calibration_context = <<"T", "G">>
    /\ SolveSkipped("T") /\ ~SolveSkipped("G")
    /\ args.gaintables = None
    /\ Len(CreateCallsFor(calls, "T")) = 1
    /\ ret.gaintables.d["T"].nsolve = 0
    /\ ret.gaintables.d["G"].nsolve = 1

\* set_beamformer_frequencies was called; the array the call is to use: the
\* caller's, or when there is none the one the configuration name begins with
Planned == op = "set_beamformer_frequencies"
PlannerPolicy ==
    IF ~args.array.none THEN args.array.s
    ELSE IF Len(args.gain_table.configuration.name) >= 3
         THEN CASE SubSeq(args.gain_table.configuration.name, 1, 3) = <<"L", "O", "W">>
                     -> "LOW"
                [] SubSeq(args.gain_table.configuration.name, 1, 3) = <<"M", "I", "D">>
                     -> "MID"
                [] OTHER -> "unknown"
         ELSE "unknown"
InputAxis == args.gain_table.frequency
ReturnsInputAxis == ret = [exc |-> NoExc, frequency |-> InputAxis]

\* C21: set_beamformer_frequencies returns the input frequency axis, and
\* raises nothing, when the axis has at most one channel, whatever the array
\* and the configuration name, and when the array is neither LOW nor MID,
\* also when the configuration name begins with LOW or MID.
C21_SoftFailureReturnsInput ==
    Planned =>
        /\ Len(InputAxis) <= 1 => ReturnsInputAxis
        /\ PlannerPolicy \notin {"LOW", "MID"} => ReturnsInputAxis

\* an array that is neither LOW nor MID, passed for a LOW configuration
C21_Witness ==
    /\ Planned
    /\ args.array = String("low")
    /\ args.gain_table.configuration.name = <<"L", "O", "W", "-", "A">>
    /\ Len(InputAxis) = 3
    /\ ReturnsInputAxis

\* the call is in the case C22 is about, and it returned an axis
PlannedAxis ==
    /\ Planned
    /\ Len(InputAxis) >= 2
    /\ PlannerPolicy \in {"LOW", "MID"}
    /\ ret.exc = NoExc

\* the spacing of the policy, in the unit of the model
PolicySpacing == IF PlannerPolicy = "LOW" THEN 32 ELSE 3

OutputSpacingExact ==
    \A i \in 1..(Len(ret.frequency) - 1) :
        ret.frequency[i + 1] - ret.frequency[i] = PolicySpacing

Resampled == op = "resample_bandpass"
ResampledTable == heap.tables[args.at[2]]
ResampledTargets == heap.frequency[args.at[1]]

\* C23: resample_bandpass fails with the unknown-resampler error, and
\* returns nothing, for every algorithm name other than polyfit, interp and
\* cubicspl; for these three, on a table of two channels or more, it returns
\* an array of shape [time, antenna, len(f_out), receptor1, receptor2] in
\* which the spectrum of every (time, antenna, receptor1, receptor2) is a
\* value computed from the same slice of the input: no element is left as
\* the memory held it.
C23_ResampledFromOwnSlice ==
    Resampled =>
        IF args.alg \notin {"polyfit", "interp", "cubicspl"}
        THEN ret = [exc |-> ValueError("unknown resampler")]
        ELSE Len(ResampledTable.frequency) >= 2 =>
                /\ ret.exc = NoExc
                /\ ret.gain_out.shape =
                     [ResampledTable.gain.shape EXCEPT ![3] = Len(ResampledTargets)]
                /\ \A x \in Indices5(ret.gain_out.shape) :
                     "uninitialised" \notin DOMAIN ret.gain_out.data[x]

\* PolynomialInterpolator.interp was called; the source grid it was given
Interpolated == op = "interp"
SourceLen == Len(args.f_in)

\* no edges were configured: set_edges was not called, or with an empty list
NoEdgesConfigured == calls = <<>> \/ calls[1].edges.v = <<>>

\* C24: a polynomial interpolator with no edges configured treats the whole
\* band as one sub-band in every interp call: over any sequence of interp
\* calls on one instance, on source grids of two channels or more of any
\* lengths, each call fits exactly one sub-band, of channels 0 to len(source).
C24_WholeBandEveryCall ==
    (Interpolated /\ NoEdgesConfigured /\ SourceLen >= 2) =>
        /\ ret.exc = NoExc
        /\ ret.fits = <<(<<0, SourceLen>>)>>

\* the edge list before the call fits the source: channel numbers from 0 to
\* len(source) (strictly ascending, as every list of the model is)
EdgesFit ==
    \A k \in DOMAIN args.self.edges.v :
        args.self.edges.v[k] \in 0..SourceLen

\* the elements of a sequence that are neither a nor b, in their order
Without(seq, a, b) ==
    LET inner(x) == x # a /\ x # b
    IN SelectSeq(seq, inner)
Count(seq, a) == Cardinality({k \in DOMAIN seq : seq[k] = a})

\* once interp has normalised edges that fit the source, the list starts with
\* 0 and ends with len(source), holds each of the two once, either one
\* inserted only when it was absent, and holds the configured interior edges
\* in their order
EdgesNormalised ==
    (/\ Interpolated /\ EdgesFit
     /\ ret.exc # ValueError("operands could not be broadcast together")) =>
        LET before == args.self.edges.v
            after == heap.sel.edges.v
        IN /\ after[1] = 0
           /\ after[Len(after)] = SourceLen
           /\ Count(after, 0) = 1
           /\ Count(after, SourceLen) = 1
           /\ Len(after) = Len(Without(before, 0, SourceLen)) + 2
           /\ Without(after, 0, SourceLen) = Without(before, 0, SourceLen)

InBand(t) ==
    /\ 2 * t >= 2 * args.f_in[1] - (args.f_in[2] - args.f_in[1])
    /\ 2 * t < 2 * args.f_in[SourceLen] + (args.f_in[2] - args.f_in[1])

\* C29: for a uniformly spaced source grid and a strictly ascending
\* normalised edge list, every target in [f_in[0] - df/2, f_in[last] + df/2)
\* is in the window of exactly one sub-band, its output is written once, by
\* the fit of the channels of that sub-band, and the sub-band holds the source
\* channel nearest the target; a target outside is written by no sub-band.
C29_WindowsPartitionBand ==
    (Interpolated /\ ret.exc = NoExc) =>
        \A c \in DOMAIN args.f_out :
            IF InBand(args.f_out[c])
            THEN /\ Len(ret.written[c]) = 1
                 /\ LET band == ret.fits[ret.written[c][1]]
                        df == args.f_in[2] - args.f_in[1]
                    IN /\ \E ch \in band[1]..(band[2] - 1) :
                            /\ 2 * (args.f_out[c] - args.f_in[ch + 1]) < df
                            /\ 2 * (args.f_in[ch + 1] - args.f_out[c]) <= df
                       /\ ret.gain_out[c] =
                            fitted_gain(SubSeq(args.f_in, band[1] + 1, band[2]),
                                        SubSeq(args.gain, band[1] + 1, band[2]),
                                        args.self.polydeg, args.f_out[c])
            ELSE ret.written[c] = <<>>

\* three sub-bands; a target on the boundary of the first two is written by
\* the second, and a target on the upper end of the band by none
C29_Witness ==
    /\ Interpolated /\ ret.exc = NoExc
    /\ ret.fits = <<(<<0, 1>>), <<1, 2>>, <<2, 3>>>>
    /\ args.f_out = <<3, 7>>
    /\ ret.written = <<(<<2>>), <<>>>>

\* the polynomial of degree d or less through the first d + 1 of the points
\* (f_in[i], y[i]) of a uniform grid, at t, for d up to 2: Newton's forward
\* differences, over the denominator 2 df^2
Newton(y, d, t) ==
    LET df == args.f_in[2] - args.f_in[1]
        s == t - args.f_in[1]
    IN Rational(y[1] * 2 * df * df
                + (IF d >= 1 THEN (y[2] - y[1]) * s * 2 * df ELSE 0)
                + (IF d >= 2 THEN (y[3] - 2 * y[2] + y[1]) * s * (s - df) ELSE 0),
                2 * df * df)
Re(gain) == [i \in DOMAIN gain |-> gain[i][1]]
Im(gain) == [i \in DOMAIN gain |-> gain[i][2]]

\* the source values lie on a polynomial of degree d or less
OnPolynomial(y, d) ==
    \A i \in DOMAIN y : Newton(y, d, args.f_in[i]) = <<y[i], 1>>

\* C25: with no edges configured, polydeg d (0, 1 or 2), more than d source
\* channels and source values whose real parts and imaginary parts each lie
\* on a polynomial of degree d or less, the output at every target in
\* [f_in[0] - df/2, f_in[last] + df/2) is the value of that polynomial.
C25_ExactOnPolynomials ==
    LET d == args.self.polydeg
    IN (/\ Interpolated /\ ret.exc = NoExc
        /\ NoEdgesConfigured
        /\ d <= 2 /\ SourceLen > d
        /\ OnPolynomial(Re(args.gain), d) /\ OnPolynomial(Im(args.gain), d)) =>
            \A c \in DOMAIN args.f_out :
                InBand(args.f_out[c]) =>
                    ret.gain_out[c] = [re |-> Newton(Re(args.gain), d, args.f_out[c]),
                                       im |-> Newton(Im(args.gain), d, args.f_out[c])]

\* polydeg 1, gains 1, 2, 3 at 100, 200, 300 Hz: 1.5 at 150 Hz and 2.5 at
\* 250 Hz
C25_Witness ==
    /\ Interpolated /\ NoEdgesConfigured
    /\ args.self.polydeg = 1
    /\ args.f_in = <<2, 4, 6>>
    /\ args.gain = <<C(1, 0), C(2, 0), C(3, 0)>>
    /\ args.f_out = <<3, 5>>
    /\ ret.gain_out = <<[re |-> <<3, 2>>, im |-> <<0, 1>>],
                        [re |-> <<5, 2>>, im |-> <<0, 1>>]>>

====
